---- MODULE Spec2Model ----
(***************************************************************************)
(* State-machine model of the geckogame runtime core: the EventBus, the    *)
(* EntityManager, the PhysicsSystem (asynchronous Rapier bootstrap,        *)
(* per-frame update, scan-orb proximity trigger), the RenderingSystem and  *)
(* the GameManager (game-mode handling, session sequencing, scan-orb       *)
(* objective sequencing, frame loop, teardown).                            *)
(*                                                                         *)
(* JavaScript runs handlers to completion on one thread, so every action   *)
(* is one complete task: a DOM/host callback, a timer or animation-frame   *)
(* callback, or the continuation of an await.  Synchronous event delivery  *)
(* is modelled by operators that map a world record to a world record, so  *)
(* that an emit inside a handler runs the listeners before the handler     *)
(* goes on.                                                                *)
(***************************************************************************)
EXTENDS Integers, Sequences, FiniteSets, TLC

VARIABLES
    bus,     \* EventBus.listeners: event name -> callbacks in registration order
    gm,      \* GameManager fields, pending frame callbacks / timers, initializeGame position
    em,      \* EntityManager.entities (insertion-ordered map, as a sequence of object ids)
    heap,    \* the entity objects, by object identity
    phys,    \* PhysicsSystem fields and the Rapier world
    rend,    \* RenderingSystem fields
    player,  \* Player fields that gate its physics update
    ctrl,    \* Controller fields
    host,    \* the host page: its GameManager reference and loading flag
    now,     \* Date.now(), in milliseconds
    tr,      \* history of the last task: events emitted, calls made
    gh       \* history kept across tasks

vars == <<bus, gm, em, heap, phys, rend, player, ctrl, host, now, tr, gh>>

----------------------------------------------------------------------------
(* Bounds of the model *)

MaxOrbs == 2        \* ScanOrb objects constructed, or due from a recreate timer
MaxTime == 1000     \* latest value of Date.now()
MaxDisposeCalls == 2   \* calls of GameManager.dispose()
MaxListeners == 2      \* callbacks a client of the bus has registered at one time
MaxOnce == 1           \* once() calls of a client of the bus
MaxDepth == 1          \* nested emits of a callback that emits its own event

\* time that passes between two frames
TimeSteps == {0, 1000}

----------------------------------------------------------------------------
(* Program constants *)

COLLISION_COOLDOWN_MS == 1000
CollisionDistance == 3

Vec(x, y, z) == [x |-> x, y |-> y, z |-> z]

\* GameManager.scanOrbPositions as constructed
InitialScanOrbPositions == << Vec(0, 3, -5), Vec(0, -40, -72) >>

\* Player rigid body description: setTranslation(0, 5, 0)
PlayerStart == Vec(0, 5, 0)

\* Places the player's rigid body can be moved to by the physics engine:
\* the start, a point at distance exactly 3 of the first target, a point
\* at distance 1 of it, a point far from both targets, a point at distance
\* 2 of the second target.  One world step moves the body to a neighbour.
PlayerPath == << PlayerStart, Vec(0, 3, -2), Vec(0, 3, -4), Vec(0, -20, -40), Vec(0, -40, -70) >>

Modes == {"loading", "waiting", "normal", "gecko"}

LandingPlaneObj == << "landing_plane", 1 >>
StarshipObj == << "starship", 1 >>
PlayerObj == << "player", 1 >>
OrbObj(k) == << "scan_orb", k >>
AllObjs == {LandingPlaneObj, StarshipObj, PlayerObj} \cup { OrbObj(k) : k \in 1..MaxOrbs }

Keys == {"g", "escape"}

----------------------------------------------------------------------------
(* Records *)

NoObj == << "none", 0 >>

\* an emitted event: a and b are string payload fields, obj an entity reference
Ev(name, a, b, obj) == [name |-> name, a |-> a, b |-> b, obj |-> obj]
Ev0(name) == Ev(name, "", "", NoObj)

NoCache == [valid |-> FALSE, ents |-> << >>]
Cache(s) == [valid |-> TRUE, ents |-> s]

NewObject == [
    created |-> FALSE,
    rb |-> 0,                  \* length of rigidBodies
    rbPos |-> Vec(0, 0, 0),    \* translation of rigidBodies[0]
    rbInWorld |-> FALSE,       \* the body has not been removed from the world
    prevPos |-> Vec(0, 0, 0),  \* ScanOrb.previousPosition
    inScene |-> FALSE,         \* the group is in the scene
    initPhysicsCalls |-> 0,    \* history: calls of initPhysics on this object
    addedReady |-> "never",    \* history: was the engine ready when it was added
    addedEvents |-> 0          \* history: entity_added_to_manager events carrying it
]

EmptyTrace == [
    op |-> "init",
    ub |-> FALSE,      \* does a call on a freed Rapier world throw, in this task
    dt |-> 0,          \* time passed since the previous frame
    mv |-> 0,          \* the move the engine gives the player's body in a world step
    fail |-> "none",   \* which createRigidBody calls of initPhysics throw, in this task
    exc |-> FALSE,     \* an exception is propagating
    err |-> FALSE,     \* the task ended with an uncaught exception
    log |-> << >>,     \* events emitted, in order
    upd |-> << >>,     \* PhysicsSystem.update calls
    cmds |-> << >>,    \* change_game_mode_command emits delivered to the GameManager
    starts |-> << >>,  \* start_game_command handlings
    colls |-> << >>,   \* handleScanOrbCollision calls
    draws |-> 0,       \* renderer.render calls
    calls |-> << >>,   \* update calls on the two systems, in order, with their deltaTime
    rafs |-> 0,        \* requestAnimationFrame registrations
    adds |-> << >>,    \* addEntity calls
    removes |-> << >>, \* removeEntity calls
    warns |-> << >>,   \* console.warn calls of the EntityManager
    inits |-> << >>,   \* initPhysics calls
    rendered |-> << >>,  \* RenderingSystem.update calls
    disp |-> << >>,    \* disposePhysics calls and world.free() calls, with the state
                       \* of the PhysicsSystem at the call
    body |-> << >>,    \* calls that set the motion of the player's rigid body
    inv |-> << >>,     \* invocations of the callbacks of a client of the bus
    depth |-> 0,       \* emits in progress around the current one
    rel |-> << >>,     \* resources released, each with whether it had been released before
    before |-> [none |-> TRUE],   \* the PhysicsSystem fields when initRapier was called again
    tick |-> FALSE     \* the task is a scheduler callback
]

----------------------------------------------------------------------------
(* Small helpers *)

SeqToSet(s) == { s[i] : i \in 1..Len(s) }

Count(s, P(_)) == Cardinality({ i \in 1..Len(s) : P(s[i]) })

Min(a, b) == IF a < b THEN a ELSE b
Max(a, b) == IF a > b THEN a ELSE b

\* (a.x-b.x)^2 + (a.y-b.y)^2 + (a.z-b.z)^2
DistSq(a, b) ==
    (a.x - b.x) * (a.x - b.x) + (a.y - b.y) * (a.y - b.y) + (a.z - b.z) * (a.z - b.z)

\* distance < 3.0, with distance the square root of DistSq
WithinCollisionRange(a, b) == DistSq(a, b) < CollisionDistance * CollisionDistance

----------------------------------------------------------------------------
(* The world: all variables as one record, so that handlers compose *)

World == [bus |-> bus, gm |-> gm, em |-> em, heap |-> heap, phys |-> phys,
          rend |-> rend, player |-> player, ctrl |-> ctrl, host |-> host,
          now |-> now, tr |-> tr, gh |-> gh]

\* garbage collection at the end of a task: an entity object that neither
\* the entity map nor a cache of a system refers to is unreachable
Reachable(w) ==
    SeqToSet(w.em.entities) \cup SeqToSet(w.phys.cache.ents) \cup SeqToSet(w.rend.cache.ents)

Collect(w) ==
    [o \in AllObjs |-> IF w.heap[o].created /\ o \notin Reachable(w)
                       THEN [NewObject EXCEPT !.created = TRUE]
                       ELSE w.heap[o]]

Commit(w) ==
    /\ bus' = w.bus
    /\ gm' = w.gm
    /\ em' = w.em
    /\ heap' = Collect(w)
    /\ phys' = w.phys
    /\ rend' = w.rend
    /\ player' = w.player
    /\ ctrl' = w.ctrl
    /\ host' = w.host
    /\ now' = w.now
    /\ tr' = [w.tr EXCEPT !.err = w.tr.exc, !.exc = FALSE, !.ub = FALSE, !.dt = 0, !.mv = 0]
    /\ gh' = w.gh

\* the world at the start of a task
Begin(op, ub, dt, mv) ==
    [World EXCEPT !.now = @ + dt,
                  !.tr = [EmptyTrace EXCEPT !.op = op, !.ub = ub, !.dt = dt, !.mv = mv]]

Log(w, e) == [w EXCEPT !.tr.log = Append(@, e)]

\* a release call on a resource: the physics world, the renderer, the rigid
\* body or the scene group of the entity o
Released(w, kind, o, again) ==
    [w EXCEPT !.tr.rel = Append(@, [kind |-> kind, obj |-> o, again |-> again])]

----------------------------------------------------------------------------
(* EventBus *)

EventNames == {
    "entity_added_to_manager", "entity_disposed",
    "entity_dispose_physics_request", "entity_dispose_rendering_request",
    "physics_engine_initialized", "change_game_mode_command", "game_mode_updated",
    "start_game_command", "scan_orb_collision", "scan_orb_position_changed",
    "recreate_scan_orb_command", "game_win_event", "physics_initialization_error",
    "player_move_command", "player_fell_off_world", "player_reset_world_command" }

\* on() adding the callback to a list
BusOn_Append(w, name, cb) ==
    IF cb \in SeqToSet(w.bus.listeners[name])
    THEN [w EXCEPT !.bus.listeners[name] = Append(@, cb),
                   !.gh.dupOn = << name, cb >>]
    ELSE [w EXCEPT !.bus.listeners[name] = Append(@, cb)]

\* EventBus.on: the callbacks of an event are a Set, iterated in insertion order
BusOn(w, name, cb) ==
    IF cb \in SeqToSet(w.bus.listeners[name])
    THEN [w EXCEPT !.gh.dupOn = << name, cb >>]
    ELSE [w EXCEPT !.bus.listeners[name] = Append(@, cb)]

\* EventBus.off
BusOff(w, name, cb) ==
    [w EXCEPT !.bus.listeners[name] = SelectSeq(@, LAMBDA x : x # cb),
              !.gh.dupOn = IF @ = << name, cb >> THEN << "", "" >> ELSE @]

\* the wrapper closure that the k-th once() call creates
WrapperName(k) == "once#" \o ToString(k)

\* EventBus.once: a new wrapper is registered with on
BusOnce(w, name, cb) ==
    BusOn([w EXCEPT !.bus.once = Append(@, [ev |-> name, cb |-> cb, fired |-> 0])],
          name, WrapperName(Len(w.bus.once) + 1))

\* EventBus.destroy
BusDestroy(w) == [w EXCEPT !.bus.listeners = [n \in EventNames |-> << >>]]

\* callbacks of a client of the bus (as the host page is one)
ClientCallbacks == { "client.plain", "client.throws", "client.adds",
                     "client.removes", "client.late", "client.reemits" }

IsWrapper(w, cb) == \E k \in 1..Len(w.bus.once) : WrapperName(k) = cb

WrapperIndex(w, cb) == CHOOSE k \in 1..Len(w.bus.once) : WrapperName(k) = cb

RECURSIVE Emit(_, _)

----------------------------------------------------------------------------
(* EntityManager: the map and its lookups *)

EntityIndex(ents, id) ==
    IF \E i \in 1..Len(ents) : ents[i][1] = id
    THEN CHOOSE i \in 1..Len(ents) : ents[i][1] = id
    ELSE 0

\* Map.delete
MapDelete(ents, id) ==
    LET k == EntityIndex(ents, id) IN
    IF k = 0 THEN ents
    ELSE [i \in 1..(Len(ents) - 1) |-> IF i < k THEN ents[i] ELSE ents[i + 1]]

\* EntityManager.getEntity
GetEntity(w, id) ==
    IF EntityIndex(w.em.entities, id) = 0 THEN NoObj
    ELSE w.em.entities[EntityIndex(w.em.entities, id)]

\* EntityManager.getEntitiesHavingComponent: every entity type of the game
\* holds both a PhysicsComponent and a RenderingComponent
GetEntitiesHavingComponent(w) == w.em.entities

\* Map.set that never replaces
MapSet_Append(ents, o) == Append(ents, o)

\* Map.set: a present key keeps its place
MapSet(ents, o) ==
    IF EntityIndex(ents, o[1]) = 0 THEN Append(ents, o)
    ELSE [ents EXCEPT ![EntityIndex(ents, o[1])] = o]

\* console.warn of the EntityManager
Warn(w, kind, id) == [w EXCEPT !.tr.warns = Append(@, [kind |-> kind, id |-> id])]

\* EntityManager.addEntity
AddEntity(w, o) ==
    LET w1 == [(IF GetEntity(w, o[1]) # NoObj THEN Warn(w, "exists", o[1]) ELSE w)
                  EXCEPT !.em.entities = MapSet(@, o),
                        !.tr.adds = Append(@, [obj |-> o,
                                               had |-> GetEntity(w, o[1]),
                                               size |-> Len(w.em.entities),
                                               entities |-> MapSet(w.em.entities, o),
                                               warns |-> Len(w.tr.warns),
                                               at |-> Len(w.tr.log) + 1]),
                        !.heap[o].addedReady = IF w.phys.isInitialized THEN "yes" ELSE "no",
                        !.gh.everAdded = @ \cup {o[1]}]
    IN Emit(w1, Ev("entity_added_to_manager", o[1], "", o))

----------------------------------------------------------------------------
(* Entities: physics capabilities *)

\* ScanOrb.position is the Vector3 it was constructed with, which is the
\* object held at scanOrbPositions[0]
ScanOrbPosition(w) == w.gm.scanOrbPositions[1]

\* what createRigidBody does in the initPhysics calls of a task: it returns,
\* it throws in the try block, or it throws there and in the fallback
Faults == {"none", "first", "both"}

\* the catch blocks of Player and ScanOrb emit physics_initialization_error,
\* those of LandingPlane and Starship log to the console only
EmitsInitializationError(o) == o[1] \in {"player", "scan_orb"}

\* the entityType of the payload
EntityType(o) ==
    CASE o[1] = "player" -> "Player"
      [] o[1] = "scan_orb" -> "ScanOrb"
      [] o[1] = "starship" -> "Starship"
      [] OTHER -> "LandingPlane"

InitializationError(o) == Ev("physics_initialization_error", o[1], EntityType(o), o)

\* initPhysics of LandingPlane, Starship, Player, ScanOrb: one rigid body is
\* created in the world and pushed on rigidBodies; when that throws, the
\* catch block reports and creates a fallback body the same way
InitPhysics(w, o) ==
    LET Body(w1) ==
            [w1 EXCEPT !.heap[o].rb = @ + 1,
                       !.heap[o].rbInWorld = TRUE,
                       !.heap[o].rbPos = CASE o[1] = "scan_orb" -> ScanOrbPosition(w)
                                           [] o[1] = "player" -> PlayerStart
                                           [] OTHER -> Vec(0, 0, 0)]
        Report(w1) ==
            IF w1.tr.exc \/ ~EmitsInitializationError(o) THEN w1
            ELSE Emit(w1, InitializationError(o))
        Fallback(w1) ==
            IF w1.tr.exc THEN w1
            ELSE IF w.tr.fail = "both" THEN Report(w1)
            ELSE Body(w1)
        Noted(w1) ==
            [w1 EXCEPT !.tr.inits = Append(@, [
                obj |-> o, fail |-> w.tr.fail, world |-> w.phys.world,
                logBefore |-> Len(w.tr.log), logAfter |-> Len(w1.tr.log),
                fallback |-> w.tr.fail # "none" /\ ~w1.tr.exc,
                bodies |-> w1.heap[o].rb - w.heap[o].rb,
                threw |-> w1.tr.exc])]
        Called(w1) ==
            IF w.tr.fail = "none" THEN Body(w1) ELSE Fallback(Report(w1))
    IN Noted(Called([w EXCEPT !.heap[o].initPhysicsCalls = @ + 1]))

\* disposePhysics: removeRigidBody for each element of rigidBodies.  On a
\* freed world the call either throws or has no effect.
DisposePhysics(w, o) ==
    LET w0 == [w EXCEPT !.tr.disp = Append(@, [call |-> "disposePhysics", obj |-> o,
                                               world |-> w.phys.world,
                                               ready |-> w.phys.isInitialized,
                                               registered |-> GetEntity(w, o[1]) = o,
                                               at |-> Len(w.tr.log)])]
        w1 == Released(w0, "physics", o, ~w.heap[o].rbInWorld) IN
    IF w.heap[o].rb = 0 THEN w0
    ELSE IF w.phys.world = "live" THEN [w1 EXCEPT !.heap[o].rbInWorld = FALSE]
    ELSE IF w.tr.ub THEN [w1 EXCEPT !.tr.exc = TRUE]
    ELSE w1

\* updatePhysics that notes the changed position and leaves the body
ScanOrbUpdatePhysics_BodyStays(w, o) ==
    IF ScanOrbPosition(w) # w.heap[o].prevPos
    THEN [w EXCEPT !.heap[o].prevPos = ScanOrbPosition(w)]
    ELSE w

\* ScanOrb.updatePhysics: the rigid body follows a changed position
ScanOrbUpdatePhysics(w, o) ==
    IF ScanOrbPosition(w) # w.heap[o].prevPos
    THEN [w EXCEPT !.heap[o].rbPos = IF w.heap[o].rb > 0 THEN ScanOrbPosition(w) ELSE @,
                   !.heap[o].prevPos = ScanOrbPosition(w)]
    ELSE w

\* Player.FALL_THRESHOLD
FALL_THRESHOLD == -75

\* Player.handlePlayerFall
HandlePlayerFall(w) ==
    Emit([w EXCEPT !.player.hasFallen = TRUE,
                   !.player.movementState = {},
                   !.player.isHalted = TRUE],
         Ev0("player_fell_off_world"))

\* updatePhysics without the test of the mode
PlayerUpdatePhysics_AnyMode(w, dt) ==
    LET SetLinvel(w1) ==
            IF w1.tr.exc THEN w1
            ELSE [w1 EXCEPT !.player.moving = TRUE,
                            !.tr.body = Append(@, [call |-> "setLinvel", by |-> "updatePhysics",
                                                   v |-> w1.player.movementVector,
                                                   halted |-> w.player.isHalted,
                                                   mode |-> w.player.currentGameMode])]
    IN IF w.player.isHalted THEN w
       ELSE IF w.heap[PlayerObj].rb = 0 THEN w
       ELSE IF ~w.player.hasFallen /\ w.heap[PlayerObj].rbPos.y <= FALL_THRESHOLD
       THEN SetLinvel(HandlePlayerFall(w))
       ELSE SetLinvel(w)

\* Player.updatePhysics: the fall detection, then the velocity is set from
\* the movement vector, unless halted or outside play
PlayerUpdatePhysics(w, dt) ==
    LET SetLinvel(w1) ==
            IF w1.tr.exc THEN w1
            ELSE [w1 EXCEPT !.player.moving = TRUE,
                            !.tr.body = Append(@, [call |-> "setLinvel", by |-> "updatePhysics",
                                                   v |-> w1.player.movementVector,
                                                   halted |-> w.player.isHalted,
                                                   mode |-> w.player.currentGameMode])]
    IN IF w.player.isHalted THEN w
       ELSE IF w.player.currentGameMode \notin {"normal", "gecko"} THEN w
       ELSE IF w.heap[PlayerObj].rb = 0 THEN w
       ELSE IF ~w.player.hasFallen /\ w.heap[PlayerObj].rbPos.y <= FALL_THRESHOLD
       THEN SetLinvel(HandlePlayerFall(w))
       ELSE SetLinvel(w)

\* updatePhysics of the entity o
UpdatePhysics(w, o, dt) ==
    LET w1 == [w EXCEPT !.tr.upd[Len(w.tr.upd)].updated = Append(@, o)] IN
    CASE o[1] = "scan_orb" -> ScanOrbUpdatePhysics(w1, o)
      [] o[1] = "player" -> PlayerUpdatePhysics(w1, dt)
      [] OTHER -> w1

----------------------------------------------------------------------------
(* PhysicsSystem *)

PhysPopulateCache(w) == [w EXCEPT !.phys.cache = Cache(GetEntitiesHavingComponent(w))]

PhysEnsureValidCache(w) == IF ~w.phys.cache.valid THEN PhysPopulateCache(w) ELSE w

\* the listener without its test of readiness
PhysOnEntityAdded_NoGuard(w, e) ==
    LET w1 == [w EXCEPT !.phys.cache = NoCache] IN
    InitPhysics(w1, e.obj)

\* listener of entity_added_to_manager
PhysOnEntityAdded(w, e) ==
    LET w1 == [w EXCEPT !.phys.cache = NoCache] IN
    IF w.phys.isInitialized /\ w.phys.world # "none" THEN InitPhysics(w1, e.obj) ELSE w1

\* listener of entity_dispose_physics_request
PhysOnDisposePhysicsRequest(w, e) ==
    LET Reset(w2) ==
            IF w2.tr.exc THEN w2
            ELSE IF e.a = "scan_orb"
            THEN [w2 EXCEPT !.phys.scanOrbCollisionActive = FALSE,
                            !.phys.scanOrbCollisionCooldown = 0]
            ELSE w2
        Found(w1) ==
            Reset(IF GetEntity(w1, e.a) # NoObj THEN DisposePhysics(w1, GetEntity(w1, e.a))
                  ELSE w1)
    IN Found(PhysEnsureValidCache(w))

\* the listener clearing the active flag only
PhysOnScanOrbPositionChanged_KeepsCooldown(w, e) ==
    [w EXCEPT !.phys.scanOrbCollisionActive = FALSE]

\* listener of scan_orb_position_changed
PhysOnScanOrbPositionChanged(w, e) ==
    [w EXCEPT !.phys.scanOrbCollisionActive = FALSE,
              !.phys.scanOrbCollisionCooldown = 0]

\* are both bodies there, and closer than the collision distance
InRange(w) ==
    LET so == GetEntity(w, "scan_orb")
        pl == GetEntity(w, "player")
    IN /\ so # NoObj /\ pl # NoObj
       /\ w.heap[so].rb > 0 /\ w.heap[pl].rb > 0
       /\ WithinCollisionRange(w.heap[so].rbPos, w.heap[pl].rbPos)

\* PhysicsSystem.checkScanOrbCollisions
CheckScanOrbCollisions(w) ==
    LET n == Len(w.tr.upd)
        so == GetEntity(w, "scan_orb")
        pl == GetEntity(w, "player")
        w0 == [w EXCEPT !.tr.upd[n].checked = TRUE]
    IN
    IF w.now < w.phys.scanOrbCollisionCooldown THEN w0
    ELSE IF so = NoObj \/ pl = NoObj THEN w0
    ELSE IF w.heap[so].rb = 0 \/ w.heap[pl].rb = 0 THEN w0
    ELSE IF WithinCollisionRange(w.heap[so].rbPos, w.heap[pl].rbPos)
            /\ ~w.phys.scanOrbCollisionActive
    THEN Emit([w0 EXCEPT !.phys.scanOrbCollisionActive = TRUE,
                         !.phys.scanOrbCollisionCooldown = w.now + COLLISION_COOLDOWN_MS,
                         !.tr.upd[n].fired = @ + 1,
                         !.gh.lastFired = w.now],
              Ev0("scan_orb_collision"))
    ELSE IF ~WithinCollisionRange(w.heap[so].rbPos, w.heap[pl].rbPos)
            /\ w.phys.scanOrbCollisionActive
    THEN [w0 EXCEPT !.phys.scanOrbCollisionActive = FALSE]
    ELSE w0

\* rapierWorld.step(): the engine moves the player's body along its velocity;
\* mv is the move it makes on PlayerPath
\* the move of the engine that drops the body to the fall threshold
DropMove == 2

PathIndex(c) == CHOOSE i \in 1..Len(PlayerPath) : PlayerPath[i] = c

WorldStep(w, mv) ==
    LET w1 == [w EXCEPT !.tr.upd[Len(w.tr.upd)].stepped = TRUE]
        p == w.heap[PlayerObj]
    IN IF w.phys.world # "live"
       THEN [w1 EXCEPT !.tr.exc = w.phys.world = "none" \/ w.tr.ub]
       ELSE IF p.rb > 0 /\ p.rbInWorld /\ w.player.moving
       THEN IF mv = DropMove
            THEN [w1 EXCEPT !.heap[PlayerObj].rbPos = Vec(0, FALL_THRESHOLD, 0)]
            ELSE IF p.rbPos.y <= FALL_THRESHOLD THEN w1
            ELSE [w1 EXCEPT !.heap[PlayerObj].rbPos =
                     PlayerPath[Max(1, Min(Len(PlayerPath), PathIndex(p.rbPos) + mv))]]
       ELSE w1

RECURSIVE UpdateEach(_, _, _, _)
UpdateEach(w, ents, i, dt) ==
    IF i > Len(ents) THEN w
    ELSE UpdateEach(UpdatePhysics(w, ents[i], dt), ents, i + 1, dt)

\* the history record of one PhysicsSystem.update call
UpdateRecord(w) ==
    [ready |-> w.phys.isInitialized, world |-> w.phys.world,
     registered |-> w.em.entities,
     stepped |-> FALSE, updated |-> << >>, checked |-> FALSE, fired |-> 0,
     wasInRange |-> w.gh.inRange, inRange |-> FALSE, orbAtTarget |-> TRUE,
     elapsed |-> w.now >= w.gh.lastFired + COLLISION_COOLDOWN_MS]

\* is the rigid body of the registered orb where the orb's position says
OrbAtTarget(w) ==
    LET so == GetEntity(w, "scan_orb")
    IN so = NoObj \/ w.heap[so].rb = 0 \/ w.heap[so].rbPos = ScanOrbPosition(w)

\* PhysicsSystem.update past its guard: step, entity updates, proximity check
PhysicsUpdateReady(w, dt, mv) ==
    LET Check(w3) ==
            CheckScanOrbCollisions(
                [w3 EXCEPT !.tr.upd[Len(w3.tr.upd)].inRange = InRange(w3),
                           !.tr.upd[Len(w3.tr.upd)].orbAtTarget = OrbAtTarget(w3),
                           !.gh.inRange = InRange(w3)])
        Each(w2) == Check(UpdateEach(w2, w2.phys.cache.ents, 1, dt))
        Stepped(w1) == IF w1.tr.exc THEN w1 ELSE Each(PhysEnsureValidCache(w1))
    IN Stepped(WorldStep(w, mv))

\* the guard dropped to the test of rapierWorld alone
PhysicsUpdate_WorldOnly(w, dt, mv) ==
    LET w0 == [w EXCEPT !.tr.upd = Append(@, UpdateRecord(w)),
                        !.tr.calls = Append(@, [sys |-> "physics", dt |-> dt])] IN
    IF w.phys.world = "none" THEN w0 ELSE PhysicsUpdateReady(w0, dt, mv)

\* PhysicsSystem.update
PhysicsUpdate(w, dt, mv) ==
    LET w0 == [w EXCEPT !.tr.upd = Append(@, UpdateRecord(w)),
                        !.tr.calls = Append(@, [sys |-> "physics", dt |-> dt])] IN
    IF ~w.phys.isInitialized \/ w.phys.world = "none" THEN w0
    ELSE PhysicsUpdateReady(w0, dt, mv)

\* initRapier with no test of the two flags
InitRapier_NoGuard(w) ==
    [w EXCEPT !.phys.isInitializing = TRUE, !.phys.rapierInit = "pending"]

\* PhysicsSystem.initRapier up to its await of RAPIER.init()
InitRapier(w) ==
    IF w.phys.isInitializing \/ w.phys.isInitialized THEN w
    ELSE [w EXCEPT !.phys.isInitializing = TRUE, !.phys.rapierInit = "pending"]

\* the event emitted before the world is created and the flags are set
InitRapierReady_EmitFirst(w) ==
    LET Set(w1) == [w1 EXCEPT !.phys.world = "live",
                              !.gh.worldsCreated = @ + 1,
                              !.phys.isInitialized = TRUE,
                              !.phys.isInitializing = FALSE]
    IN Set(Emit(w, Ev0("physics_engine_initialized")))

\* the world created, the flags set, the event emitted
InitRapierReady(w) ==
    Emit([w EXCEPT !.phys.world = "live",
                   !.gh.worldsCreated = @ + 1,
                   !.phys.isInitialized = TRUE,
                   !.phys.isInitializing = FALSE],
         Ev0("physics_engine_initialized"))

\* initRapier after its await with no test of isInitializing
InitRapierResolved_NoDisposeCheck(w) ==
    InitRapierReady(w)

\* PhysicsSystem.initRapier after RAPIER.init() has resolved
InitRapierResolved(w) ==
    IF ~w.phys.isInitializing THEN w ELSE InitRapierReady(w)

\* PhysicsSystem.initRapier: the catch block
InitRapierRejected(w) ==
    [w EXCEPT !.phys.isInitializing = FALSE, !.gh.bootFailed = TRUE]

RECURSIVE DisposePhysicsEach(_, _, _)
DisposePhysicsEach(w, ents, i) ==
    IF i > Len(ents) \/ w.tr.exc THEN w
    ELSE DisposePhysicsEach(DisposePhysics(w, ents[i]), ents, i + 1)

\* rapierWorld.free() of PhysicsSystem.dispose, and the fields reset after it
PhysicsFree(w) ==
    [(IF w.phys.world = "none" THEN w
      ELSE Released([w EXCEPT !.tr.disp = Append(@, [call |-> "free", obj |-> NoObj,
                                                     world |-> w.phys.world,
                                                     ready |-> w.phys.isInitialized])],
                    "world", NoObj, w.phys.world = "freed"))
        EXCEPT !.phys.world = IF @ = "none" THEN @ ELSE "freed",
               !.phys.isInitialized = FALSE,
               !.phys.cache = NoCache]

\* dispose going through the cache it finds when that cache is valid
PhysicsDispose_StaleCache(w) ==
    LET Each(w1) == PhysicsFree(DisposePhysicsEach(w1, w1.phys.cache.ents, 1))
    IN IF ~w.phys.isInitialized THEN [w EXCEPT !.phys.isInitializing = FALSE]
       ELSE Each(PhysEnsureValidCache([w EXCEPT !.phys.isInitializing = FALSE]))

\* PhysicsSystem.dispose
PhysicsDispose(w) ==
    LET Each(w1) == PhysicsFree(DisposePhysicsEach(w1, w1.phys.cache.ents, 1))
    IN IF ~w.phys.isInitialized THEN [w EXCEPT !.phys.isInitializing = FALSE]
       ELSE Each(PhysPopulateCache([w EXCEPT !.phys.isInitializing = FALSE]))

----------------------------------------------------------------------------
(* RenderingSystem *)

RendPopulateCache(w) == [w EXCEPT !.rend.cache = Cache(GetEntitiesHavingComponent(w))]

RendEnsureValidCache(w) == IF ~w.rend.cache.valid THEN RendPopulateCache(w) ELSE w

\* listener of entity_added_to_manager: initRendering adds the group to the scene
\* listener of entity_added_to_manager
RendOnEntityAdded(w, e) ==
    [w EXCEPT !.rend.cache = NoCache, !.heap[e.obj].inScene = TRUE]

\* RenderingSystem.update: updateRendering of each cached entity, then one render
RenderingUpdate(w, dt) ==
    LET w1 == RendEnsureValidCache(w) IN
    [w1 EXCEPT !.tr.draws = @ + 1,
               !.tr.calls = Append(@, [sys |-> "rendering", dt |-> dt]),
               !.tr.rendered = Append(@, [registered |-> w.em.entities,
                                          disposed |-> w.rend.disposed,
                                          updated |-> w1.rend.cache.ents])]

\* disposeRendering: the group leaves the scene
DisposeRendering(w, o) ==
    [Released(w, "rendering", o, ~w.heap[o].inScene) EXCEPT !.heap[o].inScene = FALSE]

RECURSIVE DisposeRenderingEach(_, _, _)
DisposeRenderingEach(w, ents, i) ==
    IF i > Len(ents) THEN w
    ELSE DisposeRenderingEach(DisposeRendering(w, ents[i]), ents, i + 1)

\* RenderingSystem.dispose
RenderingDispose(w) ==
    LET Renderer(w2) ==
            [Released(w2, "renderer", NoObj, w2.rend.disposed)
                EXCEPT !.heap = [o \in AllObjs |-> [w2.heap[o] EXCEPT !.inScene = FALSE]],
                       !.rend.disposed = TRUE]
        Each(w1) == Renderer(DisposeRenderingEach(w1, w1.rend.cache.ents, 1))
    IN Each(RendPopulateCache(w))

----------------------------------------------------------------------------
(* Entity disposal *)

\* ScanOrb.dispose
ScanOrbDispose(w, o) ==
    LET Rendering(w1) ==
            IF w1.tr.exc THEN w1
            ELSE Emit(w1, Ev("entity_dispose_rendering_request", o[1], "", NoObj))
    IN Rendering(Emit(w, Ev("entity_dispose_physics_request", o[1], "", NoObj)))

\* hasDisposeMethod(entity): ScanOrb is the only entity class with dispose()
HasDisposeMethod(o) == o[1] = "scan_orb"

\* disposeEntity without entities.delete
DisposeEntity_NoDelete(w, o) ==
    LET Delete(w1) == w1
    IN Delete(IF HasDisposeMethod(o) THEN ScanOrbDispose(w, o)
              ELSE Warn(w, "no_dispose", o[1]))

\* EntityManager.disposeEntity
DisposeEntity(w, o) ==
    LET Delete(w1) ==
            IF w1.tr.exc THEN w1
            ELSE [w1 EXCEPT !.em.entities = MapDelete(@, o[1])]
    IN Delete(IF HasDisposeMethod(o) THEN ScanOrbDispose(w, o)
              ELSE Warn(w, "no_dispose", o[1]))

\* EntityManager.removeEntity
RemoveEntity(w, id) ==
    LET Return(w2, ret) ==
            [w2 EXCEPT !.tr.removes = Append(@, [
                id |-> id,
                had |-> GetEntity(w, id),
                ready |-> w.phys.isInitialized /\ w.phys.world = "live",
                inScene |-> GetEntity(w, id) # NoObj /\ w2.heap[GetEntity(w, id)].inScene,
                ret |-> IF w2.tr.exc THEN "threw" ELSE ret,
                entitiesBefore |-> w.em.entities,
                entitiesAfter |-> w2.em.entities,
                logBefore |-> Len(w.tr.log),
                logAfter |-> Len(w2.tr.log),
                warnsBefore |-> Len(w.tr.warns),
                warnsAfter |-> Len(w2.tr.warns)])]
        Disposed(w1) ==
            IF w1.tr.exc THEN Return(w1, "threw")
            ELSE Return(Emit(w1, Ev("entity_disposed", id, "", NoObj)), "true")
    IN IF GetEntity(w, id) = NoObj THEN Return(Warn(w, "not_found", id), "false")
       ELSE Disposed(DisposeEntity(w, GetEntity(w, id)))

\* for (const entity of this.entities.values()): the iterator of a Map goes
\* on to the entry after the current one, deleted or not
RECURSIVE DisposeEntities(_, _)
DisposeEntities(w, i) ==
    IF w.tr.exc \/ i > Len(w.em.entities) THEN w
    ELSE LET After(w1) ==
                 DisposeEntities(w1, IF GetEntity(w1, w.em.entities[i][1]) = w.em.entities[i]
                                     THEN i + 1 ELSE i)
         IN After(DisposeEntity(w, w.em.entities[i]))

\* EntityManager.dispose
EntityManagerDispose(w) ==
    LET Clear(w1) == IF w1.tr.exc THEN w1 ELSE [w1 EXCEPT !.em.entities = << >>]
    IN Clear(DisposeEntities(w, 1))

----------------------------------------------------------------------------
(* Player *)

\* listener of start_game_command: unhalt()
PlayerOnStartGame(w, e) == [w EXCEPT !.player.isHalted = FALSE]

\* listener of game_mode_updated
PlayerOnGameModeUpdated(w, e) ==
    LET previousMode == w.player.currentGameMode IN
    [w EXCEPT !.player.currentGameMode = e.b,
              !.player.moving = IF previousMode # "normal" /\ w.heap[PlayerObj].rb > 0
                                THEN FALSE ELSE @]

\* listener of player_move_command; e.a is the command and e.b the direction
PlayerOnMoveCommand(w, e) ==
    LET HandleJump(w1) ==
            IF w1.player.hasFallen \/ w1.player.isHalted THEN w1
            ELSE IF w1.heap[PlayerObj].rb = 0 THEN w1
            ELSE [w1 EXCEPT !.tr.body = Append(@, [call |-> "applyImpulse", by |-> "handleJump",
                                                   v |-> {"UP"}])]
        UpdateMovementVector(w1) ==
            IF w1.player.hasFallen \/ w1.player.isHalted
            THEN [w1 EXCEPT !.player.movementVector = {}]
            ELSE [w1 EXCEPT !.player.movementVector = w1.player.movementState \ {"UP"}]
        Jump(w1) ==
            IF e.b = "UP" /\ e.a = "MOVE_START" THEN HandleJump(w1) ELSE w1
    IN UpdateMovementVector(Jump(
           [w EXCEPT !.player.movementState =
                CASE e.a = "MOVE_START" -> @ \cup {e.b}
                  [] e.a = "MOVE_END" -> @ \ {e.b}
                  [] OTHER -> @]))

\* listener of player_reset_world_command
PlayerOnResetWorldCommand(w, e) ==
    LET ResetPlayerPosition(w1) ==
            IF w1.heap[PlayerObj].rb = 0 THEN w1
            ELSE [w1 EXCEPT !.heap[PlayerObj].rbPos = PlayerStart,
                            !.player.moving = FALSE,
                            !.player.hasFallen = FALSE,
                            !.tr.body = @ \o << [call |-> "setTranslation",
                                                 by |-> "resetPlayerPosition", v |-> {}],
                                                [call |-> "setLinvel",
                                                 by |-> "resetPlayerPosition", v |-> {}] >>]
        Unhalt(w1) == [w1 EXCEPT !.player.isHalted = FALSE]
    IN Unhalt(ResetPlayerPosition(w))

\* new Player(events): the constructor registers the listeners
NewPlayer(w) ==
    [BusOn(BusOn(BusOn(BusOn(w, "start_game_command", "Player.onStartGame"),
                       "player_move_command", "Player.onMoveCommand"),
                 "player_reset_world_command", "Player.onResetWorldCommand"),
           "game_mode_updated", "Player.onGameModeUpdated")
     EXCEPT !.player.constructed = TRUE]

----------------------------------------------------------------------------
(* UIManager listeners: they change on-screen elements only *)

UIHandleGameModeUpdated(w, e) == w
UIHandleScanOrbCollision(w, e) == w
UIHandleGameWinEvent(w, e) == w

\* listener of physics_initialization_error: this.physicsErrors.push(payload)
UIHandlePhysicsInitializationError(w, e) == [w EXCEPT !.gm.physicsErrors = @ + 1]

\* GameManager.hasPhysicsErrors
HasPhysicsErrors(w) == w.gm.physicsErrors > 0

----------------------------------------------------------------------------
(* The host page *)

\* handlePhysicsError of the host page
HostHandlePhysicsError(w) ==
    [w EXCEPT !.host.hasPhysicsErrors = w.host.gameRef /\ HasPhysicsErrors(w)]

----------------------------------------------------------------------------
(* GameManager *)

\* this.events.emit("change_game_mode_command", {gameMode: m}), with the
\* history of what the emit did
EmitChangeGameMode(w, m) ==
    LET IsUpd(x) == x.name = "game_mode_updated"
        IsExact(x) == x.name = "game_mode_updated" /\ x.a = w.gm.gameMode /\ x.b = m
        News(w1) == SubSeq(w1.tr.log, Len(w.tr.log) + 1, Len(w1.tr.log))
        Noted(w1) == [w1 EXCEPT !.tr.cmds = Append(@, [
            from |-> w.gm.gameMode, to |-> m, after |-> w1.gm.gameMode,
            heard |-> w.bus.listeners["change_game_mode_command"] # << >>,
            updates |-> Count(News(w1), IsUpd), exact |-> Count(News(w1), IsExact)])]
    IN Noted(Emit(w, Ev("change_game_mode_command", m, "", NoObj)))

\* the listener reading the previous mode after the assignment
GMOnChangeGameMode_PrevAfter(w, e) ==
    LET w1 == [w EXCEPT !.gm.gameMode = e.a]
        prev == w1.gm.gameMode
    IN Emit(w1, Ev("game_mode_updated", prev, w1.gm.gameMode, NoObj))

\* listener of change_game_mode_command
GMOnChangeGameMode(w, e) ==
    LET prev == w.gm.gameMode
        w1 == [w EXCEPT !.gm.gameMode = e.a]
    IN Emit(w1, Ev("game_mode_updated", prev, w1.gm.gameMode, NoObj))

\* GameManager.initializeScanOrb
InitializeScanOrb(w) ==
    LET o == OrbObj(w.gm.orbsCreated + 1)
        w1 == [w EXCEPT !.gm.scanOrbIndex = 0,
                        !.gm.orbsCreated = @ + 1,
                        !.heap[o].created = TRUE,
                        !.heap[o].prevPos = ScanOrbPosition(w)]
    IN AddEntity(w1, o)

\* GameManager.update with the two system updates exchanged
GMUpdate_RenderFirst(w) ==
    LET Physics(w1) == IF w1.tr.exc THEN w1 ELSE PhysicsUpdate(w1, w.tr.dt, w.tr.mv)
    IN Physics(RenderingUpdate([w EXCEPT !.gm.raf = @ + 1, !.tr.rafs = @ + 1],
                               w.tr.dt))

\* GameManager.update: one frame
GMUpdate(w) ==
    LET Render(w1) == IF w1.tr.exc THEN w1 ELSE RenderingUpdate(w1, w.tr.dt)
    IN Render(PhysicsUpdate([w EXCEPT !.gm.raf = @ + 1, !.tr.rafs = @ + 1],
                            w.tr.dt, w.tr.mv))

\* listener of start_game_command
GMOnStartGame(w, e) ==
    LET IsAdd(x) == x.name = "entity_added_to_manager" /\ x.a = "scan_orb"
        Noted(w1, w2, w3) ==
            [w3 EXCEPT !.gh.startReceived = TRUE,
                       !.tr.starts = Append(@, [
                           mode |-> w1.gm.gameMode,
                           orbsBefore |-> Count(w1.tr.log, IsAdd),
                           orb |-> GetEntity(w2, "scan_orb"),
                           orbObj |-> OrbObj(w2.gm.orbsCreated),
                           pos |-> ScanOrbPosition(w2),
                           index |-> w2.gm.scanOrbIndex,
                           updBefore |-> Len(w2.tr.upd) + w2.tr.draws,
                           rafBefore |-> w2.gm.raf,
                           raf |-> w3.gm.raf])]
        Loop(w1, w2) == Noted(w1, w2, GMUpdate(w2))
        Orb(w1) == Loop(w1, InitializeScanOrb(w1))
    IN Orb(EmitChangeGameMode(w, "normal"))

\* handleScanOrbCollision taking the target before the new index
HandleScanOrbCollision_PreviousTarget(w) ==
    LET Noted(w2) == [w2 EXCEPT !.tr.colls = Append(@, [
            indexBefore |-> w.gm.scanOrbIndex, index |-> w2.gm.scanOrbIndex,
            orbBefore |-> GetEntity(w, "scan_orb"), orb |-> GetEntity(w2, "scan_orb"),
            pos |-> ScanOrbPosition(w2), logBefore |-> Len(w.tr.log),
            logAfter |-> Len(w2.tr.log)])]
        Won(w3) == IF w3.tr.exc THEN w3 ELSE Emit(w3, Ev0("game_win_event"))
        Next_(w1) ==
            IF w1.gm.scanOrbIndex >= Len(w1.gm.scanOrbPositions)
            THEN Won(RemoveEntity(w1, "scan_orb"))
            ELSE IF GetEntity(w1, "scan_orb") = NoObj THEN [w1 EXCEPT !.tr.exc = TRUE]
            ELSE Emit([w1 EXCEPT !.gm.scanOrbPositions[1] =
                                     w1.gm.scanOrbPositions[w1.gm.scanOrbIndex]],
                      Ev0("scan_orb_position_changed"))
    IN Noted(Next_([w EXCEPT !.gm.scanOrbIndex = @ + 1]))

\* GameManager.handleScanOrbCollision
HandleScanOrbCollision(w) ==
    LET Noted(w2) == [w2 EXCEPT !.tr.colls = Append(@, [
            indexBefore |-> w.gm.scanOrbIndex, index |-> w2.gm.scanOrbIndex,
            orbBefore |-> GetEntity(w, "scan_orb"), orb |-> GetEntity(w2, "scan_orb"),
            pos |-> ScanOrbPosition(w2), logBefore |-> Len(w.tr.log),
            logAfter |-> Len(w2.tr.log)])]
        Won(w3) == IF w3.tr.exc THEN w3 ELSE Emit(w3, Ev0("game_win_event"))
        Next_(w1) ==
            IF w1.gm.scanOrbIndex >= Len(w1.gm.scanOrbPositions)
            THEN Won(RemoveEntity(w1, "scan_orb"))
            ELSE IF GetEntity(w1, "scan_orb") = NoObj THEN [w1 EXCEPT !.tr.exc = TRUE]
            ELSE Emit([w1 EXCEPT !.gm.scanOrbPositions[1] =
                                     w1.gm.scanOrbPositions[w1.gm.scanOrbIndex + 1]],
                      Ev0("scan_orb_position_changed"))
    IN Noted(Next_([w EXCEPT !.gm.scanOrbIndex = @ + 1]))

\* listener of scan_orb_collision
GMOnScanOrbCollision(w, e) == HandleScanOrbCollision(w)

\* listener of recreate_scan_orb_command: GameManager.handleRecreateScanOrb
\* up to the setTimeout
GMOnRecreateScanOrb(w, e) ==
    LET w1 == [w EXCEPT !.gm.scanOrbIndex = 0]
        w2 == IF GetEntity(w1, "scan_orb") # NoObj THEN RemoveEntity(w1, "scan_orb") ELSE w1
    IN IF w2.tr.exc THEN w2 ELSE [w2 EXCEPT !.gm.timers = @ + 1]

\* listener of game_win_event: the body is commented out
GMOnGameWin(w, e) == w

\* initializeGame announcing the waiting mode before its awaits
InitializeGame_EarlyWaiting(w) ==
    LET w1 == AddEntity([w EXCEPT !.heap[LandingPlaneObj].created = TRUE], LandingPlaneObj)
        w2 == EmitChangeGameMode(w1, "waiting")
    IN [w2 EXCEPT !.gm.igPc = "awaitStarship"]

\* GameManager.initializeGame up to the first await
InitializeGame(w) ==
    LET w1 == AddEntity([w EXCEPT !.heap[LandingPlaneObj].created = TRUE], LandingPlaneObj)
    IN [w1 EXCEPT !.gm.igPc = "awaitStarship"]

\* listener of physics_engine_initialized
GMOnPhysicsEngineInitialized(w, e) == InitializeGame(w)

\* GameManager.initializeGame from the Starship to the second await
InitializeGameStarship(w) ==
    LET w1 == AddEntity([w EXCEPT !.heap[StarshipObj].created = TRUE], StarshipObj)
        w2 == NewPlayer(w1)
    IN [w2 EXCEPT !.gm.igPc = "awaitPlayer"]

\* the end of initializeGame assigning the mode itself
InitializeGamePlayer_AssignsMode(w) ==
    LET w1 == AddEntity([w EXCEPT !.heap[PlayerObj].created = TRUE], PlayerObj)
        w2 == RenderingUpdate(w1, 0)
        w3 == [w2 EXCEPT !.gm.gameMode = "waiting"]
    IN [w3 EXCEPT !.host.loading = FALSE,
                  !.gh.setLoadingCalls = @ + 1,
                  !.gm.igPc = "done"]

\* GameManager.initializeGame from the Player to the end
InitializeGamePlayer(w) ==
    LET w1 == AddEntity([w EXCEPT !.heap[PlayerObj].created = TRUE], PlayerObj)
        w2 == RenderingUpdate(w1, 0)
        w3 == EmitChangeGameMode(w2, "waiting")
    IN [w3 EXCEPT !.host.loading = FALSE,
                  !.gh.setLoadingCalls = @ + 1,
                  !.gm.igPc = "done"]

\* GameManager.dispose
GMDispose(w) ==
    LET Destroy(w3) == IF w3.tr.exc THEN w3 ELSE BusDestroy(w3)
    IN Destroy(EntityManagerDispose(PhysicsDispose(RenderingDispose(
           [w EXCEPT !.gh.disposed = TRUE, !.gm.disposeCalls = @ + 1,
                     !.ctrl.listening = FALSE]))))

----------------------------------------------------------------------------
(* Controller: the key bindings of Controls.getKeyControls *)

KeyDownControl(w, key) ==
    CASE key = "g" /\ w.gm.gameMode = "normal" -> EmitChangeGameMode(w, "gecko")
      [] key = "g" /\ w.gm.gameMode = "gecko" -> EmitChangeGameMode(w, "normal")
      [] key = "escape" /\ w.gm.gameMode = "gecko" -> EmitChangeGameMode(w, "normal")
      [] key = "w" /\ w.gm.gameMode = "normal" ->
            Emit(w, Ev("player_move_command", "MOVE_START", "FORWARD", NoObj))
      [] OTHER -> w

\* Controller.handleKeyDown
HandleKeyDown(w, key) ==
    IF key \in w.ctrl.keysPressed THEN w
    ELSE KeyDownControl([w EXCEPT !.ctrl.keysPressed = @ \cup {key}], key)

\* Controller.handleKeyUp: of the keys modelled, w has a keyUp control, in
\* the normal mode only
HandleKeyUp(w, key) ==
    LET KeyUpControl(w1) ==
            IF key = "w" /\ w1.gm.gameMode = "normal"
            THEN Emit(w1, Ev("player_move_command", "MOVE_END", "FORWARD", NoObj))
            ELSE w1
    IN KeyUpControl([w EXCEPT !.ctrl.keysPressed = @ \ {key}])

----------------------------------------------------------------------------
(* EventBus.emit: the callbacks run in registration order, each to the end *)

\* a callback of the client: client.throws throws, client.adds registers
\* client.late for the event being delivered, client.removes unregisters
\* client.plain from it, client.reemits emits the event again
ClientCall(w, cb, e, via) ==
    LET w1 == [w EXCEPT !.tr.inv = Append(@, [cb |-> cb, via |-> via, ev |-> e.name,
                                              depth |-> w.tr.depth])]
        Back(w2) == [w2 EXCEPT !.tr.depth = @ - 1]
    IN CASE cb = "client.throws" -> [w1 EXCEPT !.tr.exc = TRUE]
         [] cb = "client.adds" -> BusOn(w1, e.name, "client.late")
         [] cb = "client.removes" -> BusOff(w1, e.name, "client.plain")
         [] cb = "client.reemits" /\ w.tr.depth < MaxDepth ->
                Back(Emit([w1 EXCEPT !.tr.depth = @ + 1], e))
         [] OTHER -> w1

\* the wrapper calling the callback before it unregisters itself
OnceWrapper_OffAfter(w, cb, e) ==
    LET k == WrapperIndex(w, cb)
        Off(w1) == IF w1.tr.exc THEN w1 ELSE BusOff(w1, e.name, cb)
    IN Off(ClientCall([w EXCEPT !.bus.once[k].fired = Min(@ + 1, 2)],
                      w.bus.once[k].cb, e, cb))

\* the wrapper of EventBus.once: off(event, wrapper), then the callback
OnceWrapper(w, cb, e) ==
    LET k == WrapperIndex(w, cb)
    IN ClientCall([BusOff(w, e.name, cb) EXCEPT !.bus.once[k].fired = Min(@ + 1, 2)],
                  w.bus.once[k].cb, e, cb)

Call(w, cb, e) ==
    CASE cb = "PhysicsSystem.onEntityAdded" -> PhysOnEntityAdded(w, e)
      [] cb = "PhysicsSystem.onDisposePhysicsRequest" -> PhysOnDisposePhysicsRequest(w, e)
      [] cb = "PhysicsSystem.onScanOrbPositionChanged" -> PhysOnScanOrbPositionChanged(w, e)
      [] cb = "RenderingSystem.onEntityAdded" -> RendOnEntityAdded(w, e)
      [] cb = "UIManager.handleGameModeUpdated" -> UIHandleGameModeUpdated(w, e)
      [] cb = "UIManager.handleScanOrbCollision" -> UIHandleScanOrbCollision(w, e)
      [] cb = "UIManager.handleGameWinEvent" -> UIHandleGameWinEvent(w, e)
      [] cb = "UIManager.handlePhysicsInitializationError" ->
            UIHandlePhysicsInitializationError(w, e)
      [] cb \in {"HomePage.handlePhysicsError", "HomePage.handlePhysicsError#2"} ->
            HostHandlePhysicsError(w)
      [] cb = "GameManager.onChangeGameMode" -> GMOnChangeGameMode(w, e)
      [] cb = "GameManager.onPhysicsEngineInitialized" -> GMOnPhysicsEngineInitialized(w, e)
      [] cb = "GameManager.onStartGame" -> GMOnStartGame(w, e)
      [] cb = "GameManager.onScanOrbCollision" -> GMOnScanOrbCollision(w, e)
      [] cb = "GameManager.onRecreateScanOrb" -> GMOnRecreateScanOrb(w, e)
      [] cb = "GameManager.onGameWin" -> GMOnGameWin(w, e)
      [] cb = "Player.onStartGame" -> PlayerOnStartGame(w, e)
      [] cb = "Player.onGameModeUpdated" -> PlayerOnGameModeUpdated(w, e)
      [] cb = "Player.onMoveCommand" -> PlayerOnMoveCommand(w, e)
      [] cb = "Player.onResetWorldCommand" -> PlayerOnResetWorldCommand(w, e)
      [] cb = "UIManager.handlePlayerFellOffWorld" -> w
      [] cb \in ClientCallbacks -> ClientCall(w, cb, e, cb)
      [] IsWrapper(w, cb) -> OnceWrapper(w, cb, e)

\* the entries of the Set up to the i-th that a callback has not deleted
Kept(before, i, after) ==
    IF after = before THEN i
    ELSE Cardinality({ j \in 1..i : before[j] \in SeqToSet(after) })

\* callbacks.forEach: the iteration of a Set goes on to the entry after the
\* current one, visits entries added meanwhile and no entry deleted meanwhile;
\* an exception ends it
RECURSIVE Deliver(_, _, _)
Deliver(w, e, i) ==
    IF w.tr.exc \/ i > Len(w.bus.listeners[e.name]) THEN w
    ELSE LET Rest(w1) ==
                 Deliver(w1, e, Kept(w.bus.listeners[e.name], i, w1.bus.listeners[e.name]) + 1)
         IN Rest(Call(w, w.bus.listeners[e.name][i], e))

\* history: the event is logged, and the last game_mode_updated remembered
Record(w, e) ==
    LET w1 == Log(w, e) IN
    IF e.name = "game_mode_updated"
    THEN [w1 EXCEPT !.gh.modeEvents = Min(@ + 1, 2),
                    !.gh.prevCurr = IF w.gh.modeEvents = 0 THEN "loading" ELSE w.gh.lastEvt.b,
                    !.gh.lastEvt = e]
    ELSE IF e.name = "entity_added_to_manager"
    THEN [w1 EXCEPT !.heap[e.obj].addedEvents = @ + 1]
    ELSE IF e.name = "physics_engine_initialized"
    THEN [w1 EXCEPT !.gh.initEvents = Min(@ + 1, 2),
                    !.gh.emitReady = w.phys.isInitialized /\ w.phys.world = "live"]
    ELSE w1

Emit(w, e) == Deliver(Record(w, e), e, 1)

----------------------------------------------------------------------------
(* The state after new GameManager(container, setLoading) *)

\* the listeners in the order the constructors register them: UIManager,
\* PhysicsSystem, RenderingSystem, then GameManager.initEventListeners, and
\* after the constructor the effect of the host page that listens for
\* physics errors
InitialListeners == [n \in EventNames |->
    CASE n = "entity_added_to_manager" ->
            << "PhysicsSystem.onEntityAdded", "RenderingSystem.onEntityAdded" >>
      [] n = "entity_dispose_physics_request" -> << "PhysicsSystem.onDisposePhysicsRequest" >>
      [] n = "scan_orb_position_changed" -> << "PhysicsSystem.onScanOrbPositionChanged" >>
      [] n = "game_mode_updated" -> << "UIManager.handleGameModeUpdated" >>
      [] n = "scan_orb_collision" ->
            << "UIManager.handleScanOrbCollision", "GameManager.onScanOrbCollision" >>
      [] n = "game_win_event" -> << "UIManager.handleGameWinEvent", "GameManager.onGameWin" >>
      [] n = "change_game_mode_command" -> << "GameManager.onChangeGameMode" >>
      [] n = "physics_engine_initialized" -> << "GameManager.onPhysicsEngineInitialized" >>
      [] n = "start_game_command" -> << "GameManager.onStartGame" >>
      [] n = "recreate_scan_orb_command" -> << "GameManager.onRecreateScanOrb" >>
      [] n = "player_fell_off_world" -> << "UIManager.handlePlayerFellOffWorld" >>
      [] n = "physics_initialization_error" ->
            << "UIManager.handlePhysicsInitializationError", "HomePage.handlePhysicsError" >>
      [] OTHER -> << >> ]

Init ==
    /\ bus = [listeners |-> InitialListeners,
              once |-> << >>]      \* the once() calls made: event, callback, times fired
    /\ gm = [gameMode |-> "loading",
             scanOrbPositions |-> InitialScanOrbPositions,
             scanOrbIndex |-> 0,
             raf |-> 0,           \* pending requestAnimationFrame callbacks
             timers |-> 0,        \* pending setTimeout callbacks of handleRecreateScanOrb
             igPc |-> "idle",     \* where initializeGame stands
             orbsCreated |-> 0,   \* ScanOrb objects constructed so far
             physicsErrors |-> 0, \* ui.physicsErrors.length
             disposeCalls |-> 0]
    /\ em = [entities |-> << >>]
    /\ heap = [o \in AllObjs |-> NewObject]
    /\ phys = [isInitialized |-> FALSE,
               isInitializing |-> TRUE,   \* the constructor has called initRapier()
               rapierInit |-> "pending",  \* the promise of RAPIER.init()
               world |-> "none",          \* rapierWorld: none, live, freed
               cache |-> NoCache,
               scanOrbCollisionActive |-> FALSE,
               scanOrbCollisionCooldown |-> 0]
    /\ rend = [cache |-> NoCache, disposed |-> FALSE]
    /\ player = [constructed |-> FALSE, isHalted |-> TRUE, currentGameMode |-> "loading",
                 hasFallen |-> FALSE,
                 movementState |-> {},     \* directions of the commands in effect
                 movementVector |-> {},    \* directions the target velocity is made of
                 moving |-> FALSE]         \* updatePhysics has set the velocity
    /\ ctrl = [listening |-> TRUE, keysPressed |-> {}]
    /\ host = [mounted |-> TRUE, gameRef |-> TRUE, loading |-> TRUE,
               hasPhysicsErrors |-> FALSE,
               effects |-> 1,       \* runs of the effect that depends on loading
               startTimers |-> 0,   \* pending timers of handleStartGame
               playing |-> FALSE]   \* gameStage is "playing"
    /\ now = 0
    /\ tr = EmptyTrace
    /\ gh = [everAdded |-> {}, inRange |-> FALSE, modeEvents |-> 0,
             prevCurr |-> "loading", lastEvt |-> Ev0("none"),
             lastFired |-> -COLLISION_COOLDOWN_MS,
             startReceived |-> FALSE, setLoadingCalls |-> 0, disposed |-> FALSE,
             worldsCreated |-> 0,    \* new RAPIER.World(...) evaluations
             initEvents |-> 0,       \* physics_engine_initialized emissions
             emitReady |-> FALSE,    \* world and isInitialized set at the last of them
             bootFailed |-> FALSE,   \* RAPIER.init() has rejected
             dupOn |-> << "", "" >>] \* event and callback of the last on() call that was a
                                     \* repetition, until off() is called for them

----------------------------------------------------------------------------
(* Tasks *)

\* RAPIER.init() resolves: initRapier goes on after its await
RapierInitResolved ==
    /\ phys.rapierInit = "pending"
    /\ Commit(InitRapierResolved(
           [Begin("rapier_resolved", FALSE, 0, 0) EXCEPT !.phys.rapierInit = "done"]))

\* RAPIER.init() rejects: the catch block of initRapier
RapierInitRejected ==
    /\ phys.rapierInit = "pending"
    /\ Commit(InitRapierRejected(
           [Begin("rapier_rejected", FALSE, 0, 0) EXCEPT !.phys.rapierInit = "done"]))

\* Starship.create resolves
StarshipCreated ==
    /\ gm.igPc = "awaitStarship"
    /\ Commit(InitializeGameStarship(Begin("starship_created", FALSE, 0, 0)))

\* Player.create resolves
PlayerCreated ==
    /\ gm.igPc = "awaitPlayer"
    /\ Commit(InitializeGamePlayer(Begin("player_created", FALSE, 0, 0)))

\* the host emits start_game_command on the bus of the GameManager it holds
StartGame ==
    /\ host.gameRef
    /\ gm.orbsCreated + gm.timers < MaxOrbs
    /\ \E dt \in TimeSteps, mv \in {-1, 0, 1} :
        /\ now + dt <= MaxTime
        /\ Commit(Emit(Begin("start_game", FALSE, dt, mv), Ev0("start_game_command")))

\* recreate_scan_orb_command is emitted on the bus
RecreateScanOrb ==
    /\ host.gameRef
    /\ gm.orbsCreated + gm.timers < MaxOrbs
    /\ \E ub \in BOOLEAN :
        Commit(Emit(Begin("recreate", ub, 0, 0), Ev0("recreate_scan_orb_command")))

\* the timer of handleRecreateScanOrb fires
RecreateTimer ==
    /\ gm.timers > 0
    /\ Commit(InitializeScanOrb([Begin("recreate_timer", FALSE, 0, 0) EXCEPT !.gm.timers = @ - 1]))

\* a pending animation-frame callback runs GameManager.update
\* mv: rapierWorld.step() moves only a body that is in a live world and has a
\* velocity; any other step leaves the position alone
Frame ==
    /\ gm.raf > 0
    /\ \E dt \in TimeSteps,
          mv \in IF /\ phys.isInitialized /\ phys.world = "live" /\ player.moving
                    /\ heap[PlayerObj].rb > 0 /\ heap[PlayerObj].rbInWorld
                 THEN {-1, 0, 1} ELSE {0} :
        /\ now + dt <= MaxTime
        /\ Commit(GMUpdate([Begin("frame", FALSE, dt, mv) EXCEPT !.gm.raf = @ - 1,
                                                                 !.tr.tick = TRUE]))

KeyDown ==
    /\ ctrl.listening
    /\ \E key \in Keys : key \notin ctrl.keysPressed
          /\ Commit(HandleKeyDown(Begin("key_down", FALSE, 0, 0), key))

KeyUp ==
    /\ ctrl.listening
    /\ \E key \in ctrl.keysPressed : Commit(HandleKeyUp(Begin("key_up", FALSE, 0, 0), key))

\* the cleanup of the host page: dispose(), then the reference is dropped
Dispose ==
    /\ host.mounted
    /\ \E ub \in BOOLEAN :
        LET Drop(w) == IF w.tr.exc THEN w ELSE [w EXCEPT !.host.gameRef = FALSE]
        IN Commit(Drop(GMDispose([Begin("dispose", ub, 0, 0) EXCEPT !.host.mounted = FALSE])))

Next ==
    \/ RapierInitResolved
    \/ RapierInitRejected
    \/ StarshipCreated
    \/ PlayerCreated
    \/ StartGame
    \/ RecreateScanOrb
    \/ RecreateTimer
    \/ Frame
    \/ KeyDown
    \/ KeyUp
    \/ Dispose

Spec == Init /\ [][Next]_vars

----------------------------------------------------------------------------
(* The classes driven through their methods: calls the game itself never
   makes twice or with every identity *)

\* dispose() called again, in sequence, on the GameManager just disposed
DisposeAgain ==
    /\ tr.op \in {"dispose", "dispose_again"}
    /\ gm.disposeCalls < MaxDisposeCalls
    /\ \E ub \in BOOLEAN : Commit(GMDispose(Begin("dispose_again", ub, 0, 0)))

\* initRapier() called again while a bootstrap is in flight or the system is ready
InitRapierAgain ==
    /\ phys.isInitializing \/ phys.isInitialized
    /\ Commit(InitRapier([Begin("init_rapier_again", FALSE, 0, 0) EXCEPT !.tr.before = phys]))

----------------------------------------------------------------------------
(* A client of the bus: GameManager.eventBus hands the EventBus out, and the
   client registers, unregisters and emits on events the game does not
   listen to *)

BusEvents == { "entity_disposed", "entity_dispose_rendering_request" }

\* the callbacks the client registers with on() and off()
OnCallbacks == ClientCallbacks \ { "client.reemits", "client.late" }

\* the callbacks the client registers with once()
OnceCallbacks == { "client.plain", "client.reemits" }

Registered(w) == Len(w.bus.listeners["entity_disposed"]) +
                 Len(w.bus.listeners["entity_dispose_rendering_request"])

\* what a call on the bus starts from
BusCall(op, name, cb) ==
    [Begin(op, FALSE, 0, 0) EXCEPT
        !.tr.before = [ev |-> name, cb |-> cb, start |-> bus.listeners[name]]]

\* eventBus.on(E, c)
ClientOn ==
    \E name \in BusEvents, cb \in OnCallbacks :
        /\ Registered(World) < MaxListeners \/ cb \in SeqToSet(bus.listeners[name])
        /\ Commit(BusOn(BusCall("bus_on", name, cb), name, cb))

\* eventBus.off(E, c), for a callback the client has registered
ClientOff ==
    \E name \in BusEvents, cb \in OnCallbacks :
        /\ cb \in SeqToSet(bus.listeners[name])
        /\ Commit(BusOff(BusCall("bus_off", name, cb), name, cb))

\* eventBus.once(E, c)
ClientOnce ==
    \E name \in BusEvents, cb \in OnceCallbacks :
        /\ Registered(World) < MaxListeners
        /\ Len(bus.once) < MaxOnce
        /\ Commit(BusOnce(BusCall("bus_once", name, cb), name, cb))

\* eventBus.emit(E, payload)
ClientEmit ==
    \E name \in BusEvents :
        Commit(Emit(BusCall("bus_emit", name, ""), Ev0(name)))

----------------------------------------------------------------------------
(* The game with createRigidBody failing, started through the start button
   of the host page *)

\* RAPIER.init() resolves, and the landing plane is registered
RapierInitResolvedFaulty ==
    /\ phys.rapierInit = "pending"
    /\ \E f \in Faults :
        Commit(InitRapierResolved(
           [Begin("rapier_resolved", FALSE, 0, 0) EXCEPT !.phys.rapierInit = "done",
                                                         !.tr.fail = f]))

StarshipCreatedFaulty ==
    /\ gm.igPc = "awaitStarship"
    /\ \E f \in Faults :
        Commit(InitializeGameStarship(
           [Begin("starship_created", FALSE, 0, 0) EXCEPT !.tr.fail = f]))

PlayerCreatedFaulty ==
    /\ gm.igPc = "awaitPlayer"
    /\ \E f \in Faults :
        Commit(InitializeGamePlayer(
           [Begin("player_created", FALSE, 0, 0) EXCEPT !.tr.fail = f]))

\* the effect with the dependency [loading] runs again after setLoading(false):
\* a new handlePhysicsError is registered and called
HostLoadingEffect ==
    /\ host.mounted /\ ~host.loading /\ host.effects = 1
    /\ Commit(HostHandlePhysicsError(
           BusOn([Begin("loading_effect", FALSE, 0, 0) EXCEPT !.host.effects = 2],
                 "physics_initialization_error", "HomePage.handlePhysicsError#2")))

\* handleStartGame: a click on the start button, which the lobby shows
\* enabled while hasPhysicsErrors is false
HandleStartGame ==
    /\ host.mounted /\ ~host.loading /\ ~host.playing
    /\ host.gameRef /\ ~host.hasPhysicsErrors
    /\ gm.orbsCreated + host.startTimers < MaxOrbs
    /\ Commit([Begin("handle_start_game", FALSE, 0, 0) EXCEPT !.host.startTimers = @ + 1])

\* the timer of handleStartGame fires
StartTimer ==
    /\ host.startTimers > 0
    /\ \E f \in Faults :
        LET w == [Begin("start_timer", FALSE, 0, 0) EXCEPT
                     !.host.startTimers = @ - 1,
                     !.tr.fail = f]
            Playing(w1) == [w1 EXCEPT !.host.playing = ~w1.tr.exc \/ @]
        IN Commit(Playing(IF host.gameRef THEN Emit(w, Ev0("start_game_command")) ELSE w))

NextFaulty ==
    \/ RapierInitResolvedFaulty
    \/ StarshipCreatedFaulty
    \/ PlayerCreatedFaulty
    \/ HostLoadingEffect
    \/ HandleStartGame
    \/ StartTimer

SpecFaulty == Init /\ [][NextFaulty]_vars

----------------------------------------------------------------------------
(* The player falling off the world: the engine drops the body to the fall
   threshold, the controls send move commands, and the button of the fall
   notification sends the reset command *)

\* a frame in which the engine leaves the body where it is or drops it
FallFrame ==
    /\ gm.raf > 0
    /\ \E mv \in {0, DropMove} :
        Commit(GMUpdate([Begin("frame", FALSE, 0, mv) EXCEPT !.gm.raf = @ - 1,
                                                             !.tr.tick = TRUE]))

\* a key bound to a move in the normal mode goes down or up: one direction
\* on the ground, and UP, which is the jump
MoveCommand ==
    /\ ctrl.listening /\ gm.gameMode = "normal"
    /\ \E command \in {"MOVE_START", "MOVE_END"}, direction \in {"FORWARD", "UP"} :
        Commit(Emit(Begin("move_command", FALSE, 0, 0),
                    Ev("player_move_command", command, direction, NoObj)))

\* the reset button of the fall notification
ResetCommand ==
    /\ host.gameRef
    /\ Commit(Emit(Begin("reset_command", FALSE, 0, 0), Ev0("player_reset_world_command")))

NextPlayer ==
    \/ RapierInitResolved
    \/ StarshipCreated
    \/ PlayerCreated
    \/ StartGame
    \/ FallFrame
    \/ MoveCommand
    \/ ResetCommand

SpecPlayer == Init /\ [][NextPlayer]_vars

----------------------------------------------------------------------------
(* The keyboard with a movement key: w, beside the keys that change the
   mode *)

\* keydown of the w key
MoveKeyDown ==
    /\ ctrl.listening
    /\ "w" \notin ctrl.keysPressed
    /\ Commit(HandleKeyDown(Begin("key_down", FALSE, 0, 0), "w"))

NextKeys ==
    \/ RapierInitResolved
    \/ StarshipCreated
    \/ PlayerCreated
    \/ StartGame
    \/ KeyDown
    \/ MoveKeyDown
    \/ KeyUp

SpecKeys == Init /\ [][NextKeys]_vars

NextBus ==
    \/ ClientOn
    \/ ClientOff
    \/ ClientOnce
    \/ ClientEmit

SpecBus == Init /\ [][NextBus]_vars

NextApi ==
    \/ RapierInitResolved
    \/ RapierInitRejected
    \/ StarshipCreated
    \/ PlayerCreated
    \/ StartGame
    \/ Dispose
    \/ DisposeAgain
    \/ InitRapierAgain

SpecApi == Init /\ [][NextApi]_vars

----------------------------------------------------------------------------
(* The EntityManager driven through removeEntity with every identity: the
   game itself only ever removes the scan_orb *)

\* entityManager.removeEntity(id) on the EntityManager of a running game
RemoveEntityCall ==
    /\ host.mounted
    /\ \E o \in AllObjs :
          Commit(RemoveEntity(Begin("remove_entity", FALSE, 0, 0), o[1]))

NextEntity ==
    \/ RapierInitResolved
    \/ StarshipCreated
    \/ PlayerCreated
    \/ StartGame
    \/ RemoveEntityCall

SpecEntity == Init /\ [][NextEntity]_vars

----------------------------------------------------------------------------
(* Properties *)

\* C1: a PhysicsSystem.update call made while the engine is not ready
\* (before initialisation, after a failed bootstrap, after dispose) steps
\* nothing, calls no updatePhysics, runs no collision check, fires no event
\* and raises no error.
C1_UpdateNotReadyDoesNothing ==
    \A i \in 1..Len(tr.upd) :
        ~tr.upd[i].ready =>
            /\ ~tr.upd[i].stepped
            /\ tr.upd[i].updated = << >>
            /\ ~tr.upd[i].checked
            /\ tr.upd[i].fired = 0
            /\ ~tr.err

\* a frame ran update after dispose had freed the world, entities registered
C1_Witness ==
    /\ tr.op = "frame"
    /\ Len(tr.upd) = 1
    /\ ~tr.upd[1].ready
    /\ tr.upd[1].world = "freed"
    /\ em.entities # << >>

\* C2: an entity added before the engine is ready gets its
\* entity_added_to_manager event but never an initPhysics call, not even
\* once the engine is ready; an entity added when the engine is ready gets
\* exactly one initPhysics call.
C2_NoRetroactiveInitPhysics ==
    \A o \in AllObjs :
        /\ heap[o].addedReady # "never" => heap[o].addedEvents = 1
        /\ heap[o].addedReady = "no" => heap[o].initPhysicsCalls = 0
        /\ heap[o].addedReady = "yes" => heap[o].initPhysicsCalls = 1

\* an orb added before the engine was ready is still registered, frames
\* later, beside a landing plane added after
C2_Witness ==
    /\ tr.op = "frame"
    /\ phys.isInitialized
    /\ GetEntity(World, "scan_orb") = OrbObj(1)
    /\ heap[OrbObj(1)].addedReady = "no"
    /\ heap[OrbObj(1)].rb = 0
    /\ heap[LandingPlaneObj].addedReady = "yes"
    /\ heap[LandingPlaneObj].initPhysicsCalls = 1

\* C3: in an update of the ready engine, the player coming within 3.0 of
\* the orb (cooldown of the previous event elapsed) fires exactly one
\* scan_orb_collision; an update where the player was and stays within 3.0
\* fires none; an update with the player at 3.0 or more fires none.
C3_OneEventPerApproach ==
    \A i \in 1..Len(tr.upd) :
        tr.upd[i].checked =>
            /\ (~tr.upd[i].wasInRange /\ tr.upd[i].inRange /\ tr.upd[i].elapsed)
                   => tr.upd[i].fired = 1
            /\ (tr.upd[i].wasInRange /\ tr.upd[i].inRange) => tr.upd[i].fired = 0
            /\ ~tr.upd[i].inRange => tr.upd[i].fired = 0

\* C4: a change_game_mode_command {m'} delivered to the GameManager in mode
\* m produces exactly one game_mode_updated, with previous m and current
\* m', and gameMode is m' when the emit returns.
C4_OneUpdatePerCommand ==
    \A i \in 1..Len(tr.cmds) :
        tr.cmds[i].heard =>
            /\ tr.cmds[i].updates = 1
            /\ tr.cmds[i].exact = 1
            /\ tr.cmds[i].after = tr.cmds[i].to

\* the g key took the mode from gecko back to normal
C4_Witness ==
    \E i \in 1..Len(tr.cmds) :
        /\ tr.cmds[i].heard
        /\ tr.cmds[i].from = "gecko"
        /\ tr.cmds[i].to = "normal"
        /\ tr.cmds[i].after = "normal"

\* C5: gameMode is loading until the first game_mode_updated and afterwards
\* the current mode of the last one, whose previous mode is the mode that
\* held just before it.
C5_ModeFollowsEvents ==
    /\ gh.modeEvents = 0 => gm.gameMode = "loading"
    /\ gh.modeEvents > 0 =>
        /\ gm.gameMode = gh.lastEvt.b
        /\ gh.lastEvt.a = gh.prevCurr

\* a second event has gone from normal to gecko
C5_Witness ==
    /\ gh.modeEvents = 2
    /\ gh.lastEvt.a = "normal"
    /\ gh.lastEvt.b = "gecko"
    /\ gm.gameMode = "gecko"

\* C6: every game_mode_updated that changes the mode follows an edge of
\* loading -> waiting, waiting -> normal, normal -> gecko, gecko -> normal.
C6_ModeEdges ==
    \A i \in 1..Len(tr.log) :
        (tr.log[i].name = "game_mode_updated" /\ tr.log[i].a # tr.log[i].b) =>
            << tr.log[i].a, tr.log[i].b >> \in
                { << "loading", "waiting" >>, << "waiting", "normal" >>,
                  << "normal", "gecko" >>, << "gecko", "normal" >> }

\* C7: initializeGame starts at physics_engine_initialized and registers
\* landing_plane, starship, player in that order, each one created before
\* it is added; the mode is waiting only when all three have been
\* registered, and setLoading(false) comes after the waiting command.
C7_WaitingAfterRegistration ==
    LET three == {"landing_plane", "starship", "player"} IN
    /\ gm.igPc = "idle" => gh.everAdded \cap three = {}
    /\ "starship" \in gh.everAdded => "landing_plane" \in gh.everAdded
    /\ "player" \in gh.everAdded => "starship" \in gh.everAdded
    /\ \A i \in 1..Len(em.entities) : heap[em.entities[i]].created
    /\ gm.gameMode = "waiting" => three \subseteq gh.everAdded
    /\ ~host.loading => (three \subseteq gh.everAdded /\ gm.igPc = "done")
    /\ tr.op = "player_created" =>
        \E i, j \in 1..Len(tr.log) :
            /\ i < j
            /\ tr.log[i].name = "entity_added_to_manager" /\ tr.log[i].a = "player"
            /\ tr.log[j].name = "change_game_mode_command" /\ tr.log[j].a = "waiting"
            /\ ~host.loading

\* initializeGame has just finished: waiting, loading indicator off
C7_Witness ==
    /\ tr.op = "player_created"
    /\ gm.gameMode = "waiting"
    /\ ~host.loading
    /\ Len(em.entities) = 3

\* C8: a start_game_command sets the mode to normal, then registers a new
\* scan_orb at the first target (0, 3, -5) with scanOrbIndex 0, then starts
\* the frame loop; no frame runs before a start_game_command.
C8_StartSequence ==
    /\ \A i \in 1..Len(tr.starts) :
        /\ tr.starts[i].mode = "normal"
        /\ tr.starts[i].orbsBefore = 0
        /\ tr.starts[i].orb = tr.starts[i].orbObj
        /\ tr.starts[i].pos = InitialScanOrbPositions[1]
        /\ tr.starts[i].index = 0
        /\ tr.starts[i].updBefore = 0
        /\ tr.starts[i].raf = tr.starts[i].rafBefore + 1
    /\ (tr.tick \/ gm.raf > 0) => gh.startReceived

\* C9: a collision handled at the last target removes scan_orb and emits
\* game_win_event exactly once and no scan_orb_position_changed.
C9_LastOrbWins ==
    \A i \in 1..Len(tr.colls) :
        LET c == tr.colls[i]
            seg == SubSeq(tr.log, c.logBefore + 1, c.logAfter)
            IsWin(x) == x.name = "game_win_event"
            IsMoved(x) == x.name = "scan_orb_position_changed"
        IN c.indexBefore = Len(InitialScanOrbPositions) - 1 =>
            /\ c.orbBefore # NoObj
            /\ c.orb = NoObj
            /\ GetEntity(World, "scan_orb") = NoObj
            /\ Count(seg, IsWin) = 1
            /\ Count(seg, IsMoved) = 0

\* the orb at the second target has been collected
C9_Witness ==
    \E i \in 1..Len(tr.colls) :
        /\ tr.colls[i].indexBefore = 1
        /\ tr.colls[i].orbBefore # NoObj
        /\ tr.colls[i].orb = NoObj

\* C10: a collision adds one to scanOrbIndex; when the new index is inside
\* the list the same orb object stays registered, is not added again, is
\* at the target of the new index, and exactly one
\* scan_orb_position_changed and no game_win_event are emitted.
C10_OrbMovesToNextTarget ==
    \A i \in 1..Len(tr.colls) :
        LET c == tr.colls[i]
            seg == SubSeq(tr.log, c.logBefore + 1, c.logAfter)
            IsWin(x) == x.name = "game_win_event"
            IsMoved(x) == x.name = "scan_orb_position_changed"
            IsAdd(x) == x.name = "entity_added_to_manager"
        IN /\ c.index = c.indexBefore + 1
           /\ c.index < Len(InitialScanOrbPositions) =>
                /\ c.orbBefore # NoObj
                /\ c.orb = c.orbBefore
                /\ c.pos = InitialScanOrbPositions[c.index + 1]
                /\ Count(seg, IsAdd) = 0
                /\ Count(seg, IsMoved) = 1
                /\ Count(seg, IsWin) = 0

\* the orb at the first target has been collected and moved
C10_Witness ==
    \E i \in 1..Len(tr.colls) :
        /\ tr.colls[i].indexBefore = 0
        /\ tr.colls[i].index = 1
        /\ tr.colls[i].orb = tr.colls[i].orbBefore
        /\ tr.colls[i].orb # NoObj

\* C11: a frame calls PhysicsSystem.update and then RenderingSystem.update,
\* once each and with the same deltaTime, registers the next frame once and
\* does nothing else: every event of the frame comes out of the physics
\* update's collision check.
C11_FramePhysicsThenRendering ==
    tr.tick =>
        /\ Len(tr.calls) = 2
        /\ tr.calls[1].sys = "physics"
        /\ tr.calls[2].sys = "rendering"
        /\ tr.calls[1].dt = tr.calls[2].dt
        /\ tr.rafs = 1
        /\ Len(tr.upd) = 1
        /\ tr.draws = 1
        /\ ~tr.err
        /\ (tr.upd[1].fired = 0 => tr.log = << >>)
        /\ (tr.upd[1].fired > 0 => tr.log # << >> /\ tr.log[1].name = "scan_orb_collision")

\* a frame with a positive deltaTime on a ready physics system
C11_Witness ==
    /\ tr.tick
    /\ Len(tr.calls) = 2
    /\ tr.calls[1] = [sys |-> "physics", dt |-> MaxTime]
    /\ tr.upd[1].ready
    /\ tr.upd[1].stepped

\* C12: a frame that runs after GameManager.dispose() has begun registers
\* no further animation frame and updates neither system.
C12_NoFrameWorkAfterDispose ==
    (tr.tick /\ gh.disposed) => (tr.rafs = 0 /\ tr.calls = << >>)

\* C13: a second GameManager.dispose() does not throw, and over both calls
\* nothing is released that had been released before: not the physics
\* world, not the renderer, not the rigid body or the scene group of any
\* entity.
C13_DisposeTwiceFreesOnce ==
    /\ tr.op = "dispose_again" => ~tr.err
    /\ tr.op \in {"dispose", "dispose_again"} =>
            \A i \in 1..Len(tr.rel) : ~tr.rel[i].again

\* C14: initRapier called while a bootstrap is in flight or after the system
\* is ready changes nothing; at most one physics world is ever created, and
\* isInitializing and isInitialized are never both true.
C14_SecondInitRapierNoOp ==
    /\ tr.op = "init_rapier_again" => phys = tr.before
    /\ gh.worldsCreated <= 1
    /\ ~(phys.isInitializing /\ phys.isInitialized)

\* initRapier has been called again on a ready system
C14_Witness ==
    /\ tr.op = "init_rapier_again"
    /\ tr.before.isInitialized
    /\ phys.world = "live"

\* C15: physics_engine_initialized is emitted at most once; it has been
\* emitted exactly when the system has become ready, with the world created
\* and isInitialized set before its delivery, and it is the first event of
\* the task that emits it.
C15_InitEventOnceWhenReady ==
    LET IsInit(x) == x.name = "physics_engine_initialized" IN
    /\ gh.initEvents <= 1
    /\ gh.initEvents = 1 <=> gh.worldsCreated = 1
    /\ gh.initEvents = 1 => gh.emitReady
    /\ Count(tr.log, IsInit) > 0 =>
            /\ tr.op = "rapier_resolved"
            /\ IsInit(tr.log[1])
            /\ Count(tr.log, IsInit) = 1

\* the bootstrap has completed and its event has reached initializeGame
C15_Witness ==
    /\ tr.op = "rapier_resolved"
    /\ gh.initEvents = 1
    /\ phys.isInitialized
    /\ gm.igPc = "awaitStarship"

\* C16: when dispose() ran while RAPIER.init() was pending, the late
\* completion creates no world, leaves the system uninitialized and emits no
\* physics_engine_initialized.
C16_LateBootstrapAfterDispose ==
    (tr.op = "rapier_resolved" /\ gh.disposed) =>
        /\ phys.world = "none"
        /\ gh.worldsCreated = 0
        /\ ~phys.isInitialized
        /\ ~phys.isInitializing
        /\ gh.initEvents = 0
        /\ tr.log = << >>

\* RAPIER.init() has resolved after dispose()
C16_Witness ==
    /\ tr.op = "rapier_resolved"
    /\ gh.disposed
    /\ phys.rapierInit = "done"

\* C17: when RAPIER.init() rejects, nothing is thrown to the caller; from
\* then on the system is never initialized, no world exists, no
\* physics_engine_initialized is emitted, the mode stays loading, and every
\* PhysicsSystem.update steps nothing, updates no entity and checks nothing.
C17_BootstrapFailureStaysLoading ==
    gh.bootFailed =>
        /\ tr.op = "rapier_rejected" => ~tr.err
        /\ ~phys.isInitialized
        /\ ~phys.isInitializing
        /\ phys.world = "none"
        /\ gh.initEvents = 0
        /\ gm.gameMode = "loading"
        /\ \A i \in 1..Len(tr.upd) :
                /\ ~tr.upd[i].stepped
                /\ tr.upd[i].updated = << >>
                /\ ~tr.upd[i].checked

\* C18: a completion that arrives after GameManager.dispose() has begun (the
\* Starship or Player load of initializeGame, the timer of
\* handleRecreateScanOrb) adds no entity, emits no change_game_mode_command
\* and does not call setLoading.
C18_LateCompletionsDiscarded ==
    LET IsCmd(x) == x.name = "change_game_mode_command" IN
    (gh.disposed /\ tr.op \in {"starship_created", "player_created", "recreate_timer"}) =>
        /\ tr.adds = << >>
        /\ Count(tr.log, IsCmd) = 0
        /\ tr.op = "player_created" => gh.setLoadingCalls = 0

\* C19: every identity is registered at most once; each addEntity call
\* leaves the entity it was given registered under its identity, adds one
\* entry only when the identity was not registered, warns exactly when it
\* was, and emits one entity_added_to_manager carrying that entity.
C19_AddEntityReplaces ==
    LET IsAdd(x) == x.name = "entity_added_to_manager" IN
    /\ \A i, j \in 1..Len(em.entities) :
            em.entities[i][1] = em.entities[j][1] => i = j
    /\ Count(tr.log, IsAdd) = Len(tr.adds)
    /\ \A i \in 1..Len(tr.adds) :
            LET a == tr.adds[i] IN
            /\ tr.log[a.at] = Ev("entity_added_to_manager", a.obj[1], "", a.obj)
            /\ a.had # NoObj =>
                    /\ Len(tr.warns) > a.warns
                    /\ tr.warns[a.warns + 1] = [kind |-> "exists", id |-> a.obj[1]]
            /\ (a.had = NoObj /\ Len(tr.warns) > a.warns) =>
                    tr.warns[a.warns + 1].kind # "exists"
            /\ \E k \in 1..Len(a.entities) :
                    /\ a.entities[k] = a.obj
                    /\ \A j \in 1..Len(a.entities) : a.entities[j][1] = a.obj[1] => j = k
            /\ Len(a.entities) = IF a.had = NoObj THEN a.size + 1 ELSE a.size

\* a second ScanOrb has replaced the registered one
C19_Witness ==
    /\ tr.op = "start_game"
    /\ Len(tr.adds) = 1
    /\ tr.adds[1].had = OrbObj(1)
    /\ tr.adds[1].obj = OrbObj(2)
    /\ OrbObj(2) \in SeqToSet(em.entities)
    /\ OrbObj(1) \notin SeqToSet(em.entities)

Fired(via) ==
    Cardinality({ i \in 1..Len(tr.inv) :
        tr.inv[i].via = via /\ tr.inv[i].depth = 0 /\ tr.inv[i].ev = tr.before.ev })

\* C21: on(E, c) for a registered c changes nothing, so that no event holds
\* a callback twice and an emit that reaches c invokes it exactly once,
\* however often it was registered; off(E, c) leaves c unregistered.
C21_RegistrationIdempotent ==
    /\ \A name \in EventNames : \A i, j \in 1..Len(bus.listeners[name]) :
            bus.listeners[name][i] = bus.listeners[name][j] => i = j
    /\ tr.op = "bus_on" =>
            bus.listeners[tr.before.ev] =
                IF tr.before.cb \in SeqToSet(tr.before.start) THEN tr.before.start
                ELSE Append(tr.before.start, tr.before.cb)
    /\ tr.op = "bus_off" =>
            /\ tr.before.cb \notin SeqToSet(bus.listeners[tr.before.ev])
            /\ \A cb \in SeqToSet(tr.before.start) \ {tr.before.cb} :
                    cb \in SeqToSet(bus.listeners[tr.before.ev])
    /\ tr.op = "bus_emit" =>
            /\ \A cb \in ClientCallbacks : Fired(cb) <= 1
            /\ (~tr.err /\ bus.listeners[tr.before.ev] = tr.before.start) =>
                    \A cb \in SeqToSet(tr.before.start) : Fired(cb) = 1

\* an emit has invoked once a callback that was registered twice
C21_Witness ==
    /\ tr.op = "bus_emit"
    /\ gh.dupOn = << tr.before.ev, "client.plain" >>
    /\ Fired("client.plain") = 1

C23_ThrowDoesNotStopDelivery ==
    (tr.op = "bus_emit" /\ bus.listeners[tr.before.ev] = tr.before.start) =>
        \A cb \in SeqToSet(tr.before.start) : Fired(cb) = 1

\* C24: an emit in which nothing throws invokes exactly the callbacks that
\* were registered when it started, each once: none that a listener added
\* during the dispatch, and also those a listener removed during it.
C24_DispatchAgainstSnapshot ==
    (tr.op = "bus_emit" /\ ~tr.err) =>
        /\ \A cb \in SeqToSet(tr.before.start) : Fired(cb) = 1
        /\ \A i \in 1..Len(tr.inv) :
                tr.inv[i].depth = 0 => tr.inv[i].via \in SeqToSet(tr.before.start)

\* C25: every initPhysics call in which createRigidBody throws emits a
\* physics_initialization_error with the id and the type of the entity,
\* attempts the fallback body and returns without throwing, whichever of
\* LandingPlane, Starship, Player and ScanOrb the entity is.
C25_InitPhysicsFailureReported ==
    /\ ~tr.err
    /\ \A i \in 1..Len(tr.inits) :
        LET r == tr.inits[i] IN
        r.fail # "none" =>
            /\ ~r.threw
            /\ r.fallback
            /\ r.logAfter > r.logBefore
            /\ tr.log[r.logBefore + 1] = InitializationError(r.obj)

\* C26: the number of recorded physics errors never decreases, and the
\* timer of the start handler emits start_game_command only when it is zero.
C26_NoStartWithPhysicsErrors ==
    [][/\ gm'.physicsErrors >= gm.physicsErrors
       /\ (/\ tr'.op = "start_timer"
           /\ Len(tr'.log) > 0
           /\ tr'.log[1].name = "start_game_command") => gm.physicsErrors = 0]_vars

\* C27: a frame that updates the playing player at or below the fall
\* threshold makes it fallen; becoming fallen emits player_fell_off_world
\* exactly once, halts the player and clears its movement state, and nothing
\* else emits that event; while fallen, a move or jump command makes no call
\* that sets the motion of the body; the player stays fallen and halted in
\* every task but the handling of player_reset_world_command, which puts the
\* body at the start position, zeroes its velocity and ends the halt.
C27_FallStateMachine ==
    [][LET fell == Cardinality({ i \in 1..Len(tr'.log) :
                       tr'.log[i].name = "player_fell_off_world" })
           falls == ~player.hasFallen /\ player'.hasFallen
       IN /\ falls => /\ fell = 1
                       /\ player'.isHalted
                       /\ player'.movementState = {}
                       /\ heap'[PlayerObj].rbPos.y <= FALL_THRESHOLD
          /\ ~falls => fell = 0
          /\ (/\ tr'.op = "frame"
              /\ \E i \in 1..Len(tr'.upd) : PlayerObj \in SeqToSet(tr'.upd[i].updated)
              /\ ~player.hasFallen /\ ~player.isHalted
              /\ player.currentGameMode \in {"normal", "gecko"}
              /\ heap[PlayerObj].rb > 0
              /\ heap'[PlayerObj].rbPos.y <= FALL_THRESHOLD) => player'.hasFallen
          /\ (player.hasFallen /\ tr'.op = "move_command") =>
                /\ tr'.body = << >>
                /\ player'.movementVector = {}
                /\ heap'[PlayerObj].rbPos = heap[PlayerObj].rbPos
          /\ (player.hasFallen /\ tr'.op # "reset_command") =>
                /\ player'.hasFallen
                /\ player'.isHalted
          /\ (player.hasFallen /\ tr'.op = "reset_command") =>
                /\ ~player'.hasFallen
                /\ heap'[PlayerObj].rbPos = PlayerStart
                /\ tr'.body = << [call |-> "setTranslation", by |-> "resetPlayerPosition", v |-> {}],
                                 [call |-> "setLinvel", by |-> "resetPlayerPosition", v |-> {}] >>
                /\ ~player'.moving
                /\ ~player'.isHalted]_vars

\* C28: GameManager.dispose() with the PhysicsSystem ready calls
\* disposePhysics on each registered entity, in the order of the
\* EntityManager and with the world live, then frees the world, once, while
\* the system still counts as initialized, and leaves it uninitialized with
\* the world freed.
C28_PhysicsDisposeOrder ==
    [][(tr'.op = "dispose" /\ phys.isInitialized) =>
        LET n == Len(em.entities) IN
        /\ Len(tr'.disp) > n
        /\ \A i \in 1..n :
                /\ tr'.disp[i].call = "disposePhysics" /\ tr'.disp[i].obj = em.entities[i]
                /\ tr'.disp[i].world = "live" /\ tr'.disp[i].ready
        /\ tr'.disp[n + 1] = [call |-> "free", obj |-> NoObj, world |-> "live", ready |-> TRUE]
        /\ \A i \in 1..Len(tr'.disp) : tr'.disp[i].call = "free" => i = n + 1
        /\ ~phys'.isInitialized
        /\ phys'.world = "freed"]_vars

\* dispose() has torn down a ready PhysicsSystem with the player and a
\* scan_orb registered
C28_Witness ==
    /\ tr.op = "dispose"
    /\ \E i, j, k \in 1..Len(tr.disp) :
            /\ i < j /\ j < k
            /\ tr.disp[i].obj = PlayerObj /\ tr.disp[i].world = "live"
            /\ tr.disp[j].obj[1] = "scan_orb" /\ tr.disp[j].world = "live"
            /\ tr.disp[k].call = "free"
    /\ phys.world = "freed"

\* C29: every disposePhysics call is made with the world live and no entity
\* receives two of them in one task, and every updatePhysics and initPhysics
\* call is made with the world live.
C29_NoCapabilityOnDeadWorld ==
    /\ \A i \in 1..Len(tr.disp) :
            tr.disp[i].call = "disposePhysics" =>
                /\ tr.disp[i].world = "live"
                /\ \A j \in 1..Len(tr.disp) :
                        (tr.disp[j].call = "disposePhysics" /\ tr.disp[j].obj = tr.disp[i].obj)
                            => i = j
    /\ \A i \in 1..Len(tr.upd) : tr.upd[i].updated # << >> => tr.upd[i].world = "live"
    /\ \A i \in 1..Len(tr.inits) : tr.inits[i].world = "live"

\* C30: a valid cache of either system holds every registered entity, so
\* that an added entity has made both caches dirty; and an update of the
\* ready PhysicsSystem, and every update of the RenderingSystem, calls the
\* update of every entity registered at that moment exactly once.
C30_CachesRepopulatedBeforeUse ==
    /\ phys.cache.valid => SeqToSet(em.entities) \subseteq SeqToSet(phys.cache.ents)
    /\ rend.cache.valid => SeqToSet(em.entities) \subseteq SeqToSet(rend.cache.ents)
    /\ \A i \in 1..Len(tr.upd) :
            (tr.upd[i].ready /\ tr.upd[i].world = "live") =>
                \A o \in SeqToSet(tr.upd[i].registered) :
                    Cardinality({ k \in 1..Len(tr.upd[i].updated) :
                                    tr.upd[i].updated[k] = o }) = 1
    /\ \A i \in 1..Len(tr.rendered) :
            \A o \in SeqToSet(tr.rendered[i].registered) :
                Cardinality({ k \in 1..Len(tr.rendered[i].updated) :
                                tr.rendered[i].updated[k] = o }) = 1

\* C31: neither system update calls updatePhysics or updateRendering on an
\* object that is not registered: what PhysicsSystem.update and
\* RenderingSystem.update iterate is a subset of the entities the
\* EntityManager holds at that update
C31_SystemsIterateRegisteredOnly ==
    /\ \A i \in 1..Len(tr.upd) :
           SeqToSet(tr.upd[i].updated) \subseteq SeqToSet(tr.upd[i].registered)
    /\ \A i \in 1..Len(tr.rendered) :
           SeqToSet(tr.rendered[i].updated) \subseteq SeqToSet(tr.rendered[i].registered)

\* C32: a removeEntity that finds a physics-bearing entity while the
\* PhysicsSystem is ready calls the entity's disposePhysics with the live
\* world, while the entity is still in the collection and before
\* entity_disposed is emitted, whatever the type of the entity
C32_DisposePhysicsBeforeRemoval ==
    \A i \in 1..Len(tr.removes) :
        LET r == tr.removes[i] IN
        (r.had # NoObj /\ r.ready) =>
            \E j \in 1..Len(tr.disp) :
                /\ tr.disp[j].call = "disposePhysics"
                /\ tr.disp[j].obj = r.had
                /\ tr.disp[j].world = "live"
                /\ tr.disp[j].registered
                /\ tr.disp[j].at > r.logBefore
                /\ tr.disp[j].at <= r.logAfter
                /\ \A k \in (r.logBefore + 1)..tr.disp[j].at :
                        tr.log[k].name # "entity_disposed"

\* C33: a removeEntity that has removed an entity has called its
\* disposeRendering, and the group of the entity is no longer in the scene
\* when removeEntity returns
C33_DisposeRenderingOnRemoval ==
    \A i \in 1..Len(tr.removes) :
        LET r == tr.removes[i] IN
        (r.had # NoObj /\ r.ret = "true") =>
            /\ \E j \in 1..Len(tr.rel) :
                    tr.rel[j].kind = "rendering" /\ tr.rel[j].obj = r.had
            /\ ~r.inScene

\* C34: an entity that leaves the collection of the EntityManager in a task,
\* by removeEntity, by an addEntity of its identity or by
\* EntityManager.dispose, and that has a dispose method, has had dispose()
\* called on it exactly once (each call of ScanOrb.dispose emits one
\* entity_dispose_physics_request with its identity)
C34_DisposedOnceOnLeaving ==
    [][\A o \in SeqToSet(em.entities) :
            (o \notin SeqToSet(em'.entities) /\ HasDisposeMethod(o)) =>
                Cardinality({ k \in 1..Len(tr'.log) :
                                /\ tr'.log[k].name = "entity_dispose_physics_request"
                                /\ tr'.log[k].a = o[1] }) = 1]_vars

\* C35: a task in which scan_orb_position_changed, or
\* entity_dispose_physics_request for scan_orb, was emitted leaves the
\* trigger state reset (active flag false, cooldown 0); and an update that
\* finds the player within range of the orb fires scan_orb_collision also
\* when less than the cooldown has passed since the previous one
C35_TriggerStateReset ==
    LET IsReset(x) == \/ x.name = "scan_orb_position_changed"
                      \/ x.name = "entity_dispose_physics_request" /\ x.a = "scan_orb"
    IN /\ (\E k \in 1..Len(tr.log) : IsReset(tr.log[k])) =>
              /\ ~phys.scanOrbCollisionActive
              /\ phys.scanOrbCollisionCooldown = 0
       /\ \A i \in 1..Len(tr.upd) :
              (tr.upd[i].checked /\ tr.upd[i].inRange /\ ~tr.upd[i].elapsed) =>
                  tr.upd[i].fired = 1

\* a frame fires a collision less than a second after the previous one, and
\* the relocation of the orb it causes resets the trigger state again
C35_Witness ==
    /\ tr.op = "frame"
    /\ \E i \in 1..Len(tr.upd) : tr.upd[i].fired = 1 /\ ~tr.upd[i].elapsed
    /\ \E k \in 1..Len(tr.log) : tr.log[k].name = "scan_orb_position_changed"
    /\ ~phys.scanOrbCollisionActive
    /\ phys.scanOrbCollisionCooldown = 0

\* C36: no scan_orb_collision fires within the cooldown (one second) of the
\* previous one: an update that fires runs at least COLLISION_COOLDOWN_MS
\* after the last update that fired
C36_CooldownSuppressesRetrigger ==
    \A i \in 1..Len(tr.upd) : tr.upd[i].fired > 0 => tr.upd[i].elapsed

\* C37: at every proximity check the rigid body of the registered orb is at
\* the orb's current position (the update has moved it there first), at
\* most one collision fires per update, and none fires when the player is
\* not within range of that position: a relocated orb is not hit a second
\* time at its old place, and the index advances once per collision
C37_OneCollisionPerApproach ==
    /\ \A i \in 1..Len(tr.upd) :
            tr.upd[i].checked =>
                /\ tr.upd[i].orbAtTarget
                /\ tr.upd[i].fired <= 1
                /\ ~tr.upd[i].inRange => tr.upd[i].fired = 0
    /\ \A i \in 1..Len(tr.colls) : tr.colls[i].index = tr.colls[i].indexBefore + 1
    /\ tr.tick => Len(tr.colls) <= 1

\* the frame after the first collision: the player still stands at distance
\* 1 of the first target, the orb's body has moved to the second target,
\* nothing fires and the index stays at 1
C37_Witness ==
    /\ tr.op = "frame"
    /\ Len(tr.upd) = 1
    /\ tr.upd[1].checked /\ tr.upd[1].wasInRange /\ ~tr.upd[1].inRange
    /\ tr.upd[1].fired = 0
    /\ heap[PlayerObj].rbPos = PlayerPath[3]
    /\ GetEntity(World, "scan_orb") # NoObj
    /\ heap[GetEntity(World, "scan_orb")].rbPos = InitialScanOrbPositions[2]
    /\ gm.scanOrbIndex = 1
    /\ ~phys.scanOrbCollisionActive
    /\ phys.scanOrbCollisionCooldown = 0

\* C38: at most one animation-frame callback of the game loop is pending at
\* any time, however many start_game_command events were delivered, and at
\* most one scan_orb is registered
C38_SingleFrameLoop ==
    /\ gm.raf <= 1
    /\ Cardinality({ i \in 1..Len(em.entities) : em.entities[i][1] = "scan_orb" }) <= 1

\* C39: the MOVE_START sent when the w key went down is matched by a
\* MOVE_END when it goes up, whatever the mode did in between: a release of
\* w while FORWARD is among the player's active directions emits MOVE_END
\* for FORWARD, and FORWARD is no longer active once w is up
C39_MoveEndFollowsMoveStart ==
    [][("w" \in ctrl.keysPressed /\ "w" \notin ctrl'.keysPressed
            /\ "FORWARD" \in player.movementState) =>
          /\ \E k \in 1..Len(tr'.log) :
                 tr'.log[k] = Ev("player_move_command", "MOVE_END", "FORWARD", NoObj)
          /\ "FORWARD" \notin player'.movementState]_vars

\* C40: Player.updatePhysics sets the velocity of the body only when, at the
\* call, the player is not halted and the mode it last observed is normal
\* or gecko; the player is halted until a start_game_command has been
\* received; and while the mode of the game is loading or waiting the body
\* has no velocity for the world step to move it by, and a frame makes no
\* call that sets the body in motion
C40_NoPlayerMotionOutsidePlay ==
    /\ \A i \in 1..Len(tr.body) :
            tr.body[i].by = "updatePhysics" =>
                /\ ~tr.body[i].halted
                /\ tr.body[i].mode \in {"normal", "gecko"}
    /\ ~player.isHalted => gh.startReceived
    /\ gm.gameMode \in {"loading", "waiting"} => ~player.moving
    /\ (tr.tick /\ gm.gameMode \in {"loading", "waiting"}) => tr.body = << >>

\* a frame in the waiting mode, after an early start command has unhalted
\* the player: the physics update steps the world with the player's body
\* in it, calls the player's updatePhysics and leaves the body at its start
C40_Witness ==
    /\ tr.op = "frame"
    /\ gm.gameMode = "waiting"
    /\ ~player.isHalted
    /\ heap[PlayerObj].rb > 0
    /\ Len(tr.upd) = 1
    /\ tr.upd[1].stepped /\ PlayerObj \in SeqToSet(tr.upd[1].updated)
    /\ heap[PlayerObj].rbPos = PlayerStart
    /\ tr.body = << >>

====
